---- MODULE Spec2Model ----
(***************************************************************************)
(* TutorScoring: risk scoring, pairwise match prediction store and the     *)
(* optimal 1-to-1 assignment.                                              *)
(*                                                                         *)
(* Number representation.  Python floats and SQL NUMERIC values are        *)
(* fixed-point integers:                                                   *)
(*   probabilities / compatibility : units of 0.00001  (1.0 = 100000)      *)
(*   mismatch scores               : units of 0.01     (2.5 = 250)         *)
(*   reschedule rates, thresholds  : rates in units of 0.01 percent,       *)
(*                                   caller thresholds in 0.001 percent    *)
(* The database tables are sets of rows; a row id stands for the uuid4     *)
(* primary key.  Each request handler runs in its own worker with its own  *)
(* SQLAlchemy session; every database statement of a handler is one step.  *)
(***************************************************************************)
EXTENDS Integers, Sequences, FiniteSets, TLC

VARIABLES
    students,           \* students table: id -> profile
    tutors,             \* tutors table: id -> profile
    match_predictions,  \* match_predictions table: set of rows
    tutor_scores,       \* tutor_scores table: set of rows
    sessions,           \* sessions table joined with reschedules: set of rows
    model_file,         \* classifier artifact on disk: "absent", "present",
                        \* "retrained" (another classifier) or "corrupt"
    nextId,             \* source of fresh primary keys
    clock,              \* datetime.utcnow(), in ticks
    pc,                 \* worker -> position in its handler
    frame,              \* worker -> local variables of its handler
    ops,                \* number of handlers started so far
    cache,              \* Redis: tutor id -> cached score dict, or NoScore
    interrupted,        \* history: the bulk refreshes that stopped partway
    joblib,             \* the ML libraries of the process: "installed" or "none"
    cached_model,       \* _cached_model: "none" or the artifact it was loaded from
    cached_feature_names,   \* _cached_feature_names
    cached_metadata,    \* _cached_metadata
    environ,            \* os.environ: variable name -> string, or Unset
    redis,              \* the Redis server: "up" or "down"
    json_files          \* feature_names.json and model_metadata.json on disk

vars == <<students, tutors, match_predictions, tutor_scores, sessions,
          model_file, nextId, clock, pc, frame, ops, cache, interrupted,
          joblib, cached_model, cached_feature_names, cached_metadata,
          environ, redis, json_files>>

----------------------------------------------------------------------------
(* Bounds *)

MaxOps == 2
MaxScoreOps == 2
MaxSessions == 2
MaxClock == 110
MaxLen == 3
MaxSeqOps == 3
MaxModelOps == 3

----------------------------------------------------------------------------
(* Python values *)

None == -1

Abs(x) == IF x < 0 THEN -x ELSE x
Min(a, b) == IF a < b THEN a ELSE b
Max(a, b) == IF a > b THEN a ELSE b

\* str.lower() on the teaching-style strings used in the model
lower(s) ==
    CASE s = "Structured" -> "structured"
      [] s = "Flexible" -> "flexible"
      [] OTHER -> s

Workers == {"w1", "w2"}

----------------------------------------------------------------------------
(* feature_engineering.py *)

\* variant: the teaching styles are compared without lower()
calculate_mismatch_scores_case_sensitive(student, tutor) ==
    [pace_mismatch |->
        IF student.preferred_pace # None /\ tutor.preferred_pace # None
        THEN 100 * Abs(student.preferred_pace - tutor.preferred_pace)
        ELSE 250,
     style_mismatch |->
        IF student.preferred_teaching_style # "" /\ tutor.teaching_style # ""
        THEN IF student.preferred_teaching_style = tutor.teaching_style
             THEN 0 ELSE 100
        ELSE 50,
     communication_mismatch |->
        IF student.communication_style_preference # None
           /\ tutor.communication_style # None
        THEN 100 * Abs(student.communication_style_preference
                       - tutor.communication_style)
        ELSE 250,
     age_difference |->
        IF student.age # None /\ tutor.age # None
        THEN Abs(student.age - tutor.age)
        ELSE 10]

\* lines 10-57; mismatches in units of 0.01, the age difference in years;
\* a missing style is None or the empty string
calculate_mismatch_scores(student, tutor) ==
    [pace_mismatch |->
        IF student.preferred_pace # None /\ tutor.preferred_pace # None
        THEN 100 * Abs(student.preferred_pace - tutor.preferred_pace)
        ELSE 250,
     style_mismatch |->
        IF student.preferred_teaching_style # "" /\ tutor.teaching_style # ""
        THEN IF lower(student.preferred_teaching_style) = lower(tutor.teaching_style)
             THEN 0 ELSE 100
        ELSE 50,
     communication_mismatch |->
        IF student.communication_style_preference # None
           /\ tutor.communication_style # None
        THEN 100 * Abs(student.communication_style_preference
                       - tutor.communication_style)
        ELSE 250,
     age_difference |->
        IF student.age # None /\ tutor.age # None
        THEN Abs(student.age - tutor.age)
        ELSE 10]

\* weights in percent
weights ==
    [pace_mismatch |-> 30, style_mismatch |-> 30,
     communication_mismatch |-> 20, age_difference |-> 20]

\* normalised mismatches in units of 0.00001
normalized_mismatches(m) ==
    [pace_mismatch |-> Min(m.pace_mismatch * 250, 100000),
     style_mismatch |-> m.style_mismatch * 1000,
     communication_mismatch |-> Min(m.communication_mismatch * 250, 100000),
     age_difference |-> Min(m.age_difference * 5000, 100000)]

calculate_compatibility_score(m) ==
    LET n == normalized_mismatches(m)
        weighted_mismatch ==
            (weights.pace_mismatch * n.pace_mismatch
             + weights.style_mismatch * n.style_mismatch
             + weights.communication_mismatch * n.communication_mismatch
             + weights.age_difference * n.age_difference) \div 100
    IN Max(0, Min(100000, 100000 - weighted_mismatch))

NoStats ==
    [present |-> FALSE, reschedule_rate_30d |-> 0, total_sessions_30d |-> 0,
     is_high_risk |-> FALSE]

\* The profile columns that only feed the classifier (urgency, experience,
\* satisfaction, confidence) are unset in every profile of the model, so
\* their features are the constants of the else-branches and are left out.
extract_features(student, tutor, tutor_stats) ==
    LET m == calculate_mismatch_scores(student, tutor)
    IN [pace_mismatch |-> m.pace_mismatch,
        style_mismatch |-> m.style_mismatch,
        communication_mismatch |-> m.communication_mismatch,
        age_difference |-> m.age_difference,
        student_age |-> IF student.age # None /\ student.age # 0
                        THEN student.age ELSE 15,
        student_pace |-> IF student.preferred_pace # None
                            /\ student.preferred_pace # 0
                         THEN student.preferred_pace ELSE 3,
        tutor_age |-> IF tutor.age # None /\ tutor.age # 0
                      THEN tutor.age ELSE 30,
        tutor_pace |-> IF tutor.preferred_pace # None /\ tutor.preferred_pace # 0
                       THEN tutor.preferred_pace ELSE 3,
        tutor_reschedule_rate_30d |->
            IF tutor_stats.present THEN tutor_stats.reschedule_rate_30d ELSE 0,
        tutor_total_sessions_30d |->
            IF tutor_stats.present THEN tutor_stats.total_sessions_30d ELSE 0,
        tutor_is_high_risk |->
            IF tutor_stats.present /\ tutor_stats.is_high_risk THEN 1 ELSE 0,
        compatibility_score |-> calculate_compatibility_score(m)]

----------------------------------------------------------------------------
(* match_prediction_service.py: scoring *)

\* The trained classifier is an artifact outside the repository: a
\* deterministic function of the feature vector with values in [0, 1].
\* This stand-in depends on every feature and yields values that are not
\* multiples of 0.0001.
predict_proba(f) ==
    Min(100000,
        ((100000 - f.compatibility_score) * 9) \div 10
        + 2000 * f.tutor_is_high_risk
        + f.tutor_reschedule_rate_30d \div 4
        + 100 * f.tutor_total_sessions_30d
        + 3 * f.student_age + f.tutor_age + f.student_pace + f.tutor_pace
        + 6)

\* model.predict_proba of a loaded classifier, line 174: the retrained
\* artifact is another function of the feature vector
classify(model, f) ==
    IF model = "retrained" THEN Min(100000, predict_proba(f) + 1111)
    ELSE predict_proba(f)

\* variant: the cache is never consulted, every call reads the disk
load_model_without_cache ==
    IF joblib = "none"
    THEN [raises |-> "ImportError", model |-> "none",
          feature_names |-> "none", metadata |-> "none"]
    ELSE IF model_file = "absent"
    THEN [raises |-> "FileNotFoundError", model |-> "none",
          feature_names |-> "none", metadata |-> "none"]
    ELSE IF model_file = "corrupt"
    THEN [raises |-> "UnpicklingError", model |-> "none",
          feature_names |-> "none", metadata |-> "none"]
    ELSE [raises |-> "", model |-> model_file,
          feature_names |-> model_file, metadata |-> model_file]

\* load_model, lines 65-112: what it raises or returns.  The feature names
\* and the metadata are written together with the artifact and are named
\* after it.  joblib.load of a corrupt artifact raises an unpickling error
\* (neither FileNotFoundError nor ImportError) before anything is cached.
load_model ==
    IF cached_model # "none"
    THEN [raises |-> "", model |-> cached_model,
          feature_names |-> cached_feature_names,
          metadata |-> cached_metadata]
    ELSE IF joblib = "none"
    THEN [raises |-> "ImportError", model |-> "none",
          feature_names |-> "none", metadata |-> "none"]
    ELSE IF model_file = "absent"
    THEN [raises |-> "FileNotFoundError", model |-> "none",
          feature_names |-> "none", metadata |-> "none"]
    ELSE IF model_file = "corrupt"
    THEN [raises |-> "UnpicklingError", model |-> "none",
          feature_names |-> "none", metadata |-> "none"]
    ELSE [raises |-> "", model |-> model_file,
          feature_names |-> model_file, metadata |-> model_file]

\* metadata['model_version'] of a loaded metadata file: 'v2.0' is what
\* scripts/train_match_model.py writes for the artifact it trains
metadata_model_version(metadata) ==
    IF metadata = "retrained" THEN "v2.0" ELSE "v1.0"

\* predict_churn_risk, lines 153-155: the exceptions it recovers from
Recovered == {"FileNotFoundError", "ImportError"}

\* the classifier predict_churn_risk uses: the loaded one, or "absent" for
\* the rule-based fallback
model_used ==
    IF load_model.raises # "" THEN "absent" ELSE load_model.model

\* predict_churn_risk, lines 153-176; file is the classifier in use
predict_churn_risk(student, tutor, tutor_stats, file) ==
    IF file = "absent"
    THEN 100000 - calculate_compatibility_score(
                      calculate_mismatch_scores(student, tutor))
    ELSE classify(file, extract_features(student, tutor, tutor_stats))

low_threshold == 30000
high_threshold == 70000

\* os.getenv(name, default): the names the two services read
EnvNames ==
    {"MATCH_RISK_THRESHOLD_LOW", "MATCH_RISK_THRESHOLD_HIGH",
     "RESCHEDULE_RISK_THRESHOLD_LOW", "RESCHEDULE_RISK_THRESHOLD_HIGH"}

Unset == "unset"

\* float(s) of the strings the environment holds in the model
float(s) ==
    CASE s = "0.2" -> 20000
      [] s = "0.5" -> 50000

\* float(os.getenv(name, default))
getenv(name, default) ==
    IF environ[name] = Unset THEN default ELSE float(environ[name])

\* variant: the environment is not consulted
determine_risk_level_ignores_environment(probability) ==
    IF probability < low_threshold THEN "low"
    ELSE IF probability < high_threshold THEN "medium"
    ELSE "high"

\* match_prediction_service.py determine_risk_level, lines 115-138
determine_risk_level(probability) ==
    IF probability < getenv("MATCH_RISK_THRESHOLD_LOW", low_threshold)
    THEN "low"
    ELSE IF probability < getenv("MATCH_RISK_THRESHOLD_HIGH", high_threshold)
    THEN "medium"
    ELSE "high"

reschedule_low_threshold == 15000
reschedule_high_threshold == 35000

\* reschedule_prediction_service.py determine_risk_level, lines 137-160
reschedule_determine_risk_level(probability) ==
    IF probability < getenv("RESCHEDULE_RISK_THRESHOLD_LOW",
                            reschedule_low_threshold)
    THEN "low"
    ELSE IF probability < getenv("RESCHEDULE_RISK_THRESHOLD_HIGH",
                                 reschedule_high_threshold)
    THEN "medium"
    ELSE "high"

predict_match(student, tutor, tutor_stats, file) ==
    LET mismatch_scores == calculate_mismatch_scores(student, tutor)
        churn_probability == predict_churn_risk(student, tutor, tutor_stats, file)
    IN [churn_probability |-> churn_probability,
        risk_level |-> determine_risk_level(churn_probability),
        compatibility_score |-> calculate_compatibility_score(mismatch_scores),
        mismatch_scores |-> mismatch_scores]

NoData ==
    [churn_probability |-> 0, risk_level |-> "", compatibility_score |-> 0,
     mismatch_scores |-> [pace_mismatch |-> 0, style_mismatch |-> 0,
                          communication_mismatch |-> 0, age_difference |-> 0]]

----------------------------------------------------------------------------
(* models/match_prediction.py: the match_predictions table *)

\* Column(Numeric(5, 4)): the value is rounded to 4 decimal places on write
Numeric_5_4(x) == ((x + 5) \div 10) * 10

\* Column(Numeric(5, 2)): the value is rounded to 2 decimal places on write;
\* mismatch scores are in units of 0.01
Numeric_5_2(x) == x

\* lines 27-45: the value a column holds after `value` is written to it
ToColumn(column, value) ==
    CASE column \in {"churn_probability", "compatibility_score"} ->
             Numeric_5_4(value)
      [] column \in {"pace_mismatch", "style_mismatch",
                     "communication_mismatch"} ->
             Numeric_5_2(value)
      [] OTHER -> value

\* match_prediction_service.py lines 247-253 and 267-273: the attribute
\* values the service assigns from a prediction_data dict
PredictionColumns(data) ==
    [churn_probability |-> data.churn_probability,
     risk_level |-> data.risk_level,
     compatibility_score |-> data.compatibility_score,
     pace_mismatch |-> data.mismatch_scores.pace_mismatch,
     style_mismatch |-> data.mismatch_scores.style_mismatch,
     communication_mismatch |-> data.mismatch_scores.communication_mismatch,
     age_difference |-> data.mismatch_scores.age_difference]

\* the row an INSERT or UPDATE of these attribute values leaves in the table
Stored(object) == [c \in DOMAIN object |-> ToColumn(c, object[c])]

\* match_prediction_service.py lines 264-275: the new MatchPrediction object
NewMatchPrediction(id, student_id, tutor_id, data) ==
    [id |-> id, student_id |-> student_id, tutor_id |-> tutor_id,
     ai_explanation |-> "", model_version |-> "v1.0"]
    @@ PredictionColumns(data)

NoRow == NewMatchPrediction(0, "", "", NoData)

\* UniqueConstraint('student_id', 'tutor_id')
uq_match_predictions_student_tutor(table, row) ==
    \A r \in table :
        ~(r.student_id = row.student_id /\ r.tutor_id = row.tutor_id)

\* db.query(MatchPrediction).filter(student_id == s, tutor_id == t).first()
QueryPrediction(table, s, t) ==
    LET found == {r \in table : r.student_id = s /\ r.tutor_id = t}
    IN IF found = {} THEN NoRow ELSE CHOOSE r \in found : TRUE

RowById(table, id) ==
    LET found == {r \in table : r.id = id}
    IN IF found = {} THEN NoRow ELSE CHOOSE r \in found : TRUE

----------------------------------------------------------------------------
(* models/tutor_score.py: the tutor_scores table, as the services read it *)

\* tutor.tutor_score (uselist=False): the tutor's score row, if any
TutorScoreOf(table, t) ==
    LET found == {r \in table : r.tutor_id = t}
    IN IF found = {} THEN {} ELSE {CHOOSE r \in found : TRUE}

\* the tutor_stats dict every caller of get_or_create_match_prediction builds
TutorStats(table, t) ==
    IF TutorScoreOf(table, t) = {} THEN NoStats
    ELSE LET ts == CHOOSE r \in TutorScoreOf(table, t) : TRUE
         IN [present |-> TRUE,
             reschedule_rate_30d |->
                 IF ts.reschedule_rate_30d = None THEN 0
                 ELSE ts.reschedule_rate_30d,
             total_sessions_30d |-> ts.total_sessions_30d,
             is_high_risk |-> ts.is_high_risk]

----------------------------------------------------------------------------
(* Handler frames *)

EmptyMap == [x \in {} |-> 0]

NoFrame ==
    [op |-> "none", student |-> "", tutor |-> "", force |-> FALSE,
     stats |-> NoStats, existing |-> NoRow, data |-> NoData,
     queue |-> <<>>, count |-> 0,
     sids |-> <<>>, tids |-> <<>>, i |-> 0, j |-> 0,
     cost |-> EmptyMap, pmap |-> EmptyMap, fresh |-> {},
     ret |-> NoRow, matches |-> <<>>,
     error |-> "", named |-> {}, touched |-> {}, wrote |-> {}]

RECURSIVE SetToSeq(_)
\* db.query(X).all(): the rows in one fixed order
SetToSeq(S) ==
    IF S = {} THEN <<>>
    ELSE LET x == CHOOSE y \in S : TRUE
         IN <<x>> \o SetToSeq(S \ {x})

----------------------------------------------------------------------------
(* match_prediction_service.py: get_or_create_match_prediction *)

\* variant: the force-refresh branch leaves the cached explanation in place
refresh_existing_keeps_explanation(existing, data) ==
    [c \in DOMAIN existing |->
        IF c \in DOMAIN PredictionColumns(data) THEN PredictionColumns(data)[c]
        ELSE existing[c]]

\* lines 247-255: the attribute values the force-refresh branch assigns
refresh_existing(existing, data) ==
    [c \in DOMAIN existing |->
        IF c \in DOMAIN PredictionColumns(data) THEN PredictionColumns(data)[c]
        ELSE IF c = "ai_explanation" THEN ""
        ELSE existing[c]]

\* variant: a record that was found is always refreshed
existing_branch_always_refreshes(existing, data, force_refresh) ==
    [object |-> refresh_existing(existing, data), commit |-> TRUE]

\* lines 244-261: what becomes of the record that was found: the attribute
\* values it ends with and whether the branch commits
existing_branch(existing, data, force_refresh) ==
    IF force_refresh
    THEN [object |-> refresh_existing(existing, data), commit |-> TRUE]
    ELSE [object |-> existing, commit |-> FALSE]

\* db.commit() of a modified object: the unit of work emits an UPDATE of the
\* columns whose assigned value differs from the value this session loaded
flush_update(current, loaded, assigned) ==
    [c \in DOMAIN current |->
        IF assigned[c] # loaded[c] THEN ToColumn(c, assigned[c]) ELSE current[c]]

\* variant: a table without the unique constraint
insert_accepted_unconstrained(table, row) == TRUE

\* db.add + db.commit of a new row: the INSERT succeeds iff the table's
\* constraints accept the row
insert_accepted(table, row) == uq_match_predictions_student_tutor(table, row)

Pair(f) == <<f.student, f.tutor>>

\* variant: the cost is written to the transposed cell
cost_cell_transposed(i, j) == <<j, i>>

\* matching_algorithm_service.py line 88: the matrix cell build_cost_matrix
\* writes the cost of the prediction for (student_ids[i], tutor_ids[j]) to
cost_cell(i, j) == <<i, j>>

\* The cells of the cost matrix in the order the two loops visit them
NextCell(f) ==
    IF f.j < Len(f.tids) THEN <<f.i, f.j + 1>> ELSE <<f.i + 1, 1>>

\* Where the caller of get_or_create_match_prediction continues with the
\* returned record: the API handler returns it, a bulk refresh counts it
\* and takes the next pair, build_cost_matrix fills its cell (lines 86-91).
\* committed: whether the call committed, which expires the session's
\* other objects.
Continue(f, row, committed, scores) ==
    LET g == [f EXCEPT !.ret = row,
                       !.fresh = IF committed THEN {} ELSE @]
    IN CASE f.op = "get_or_create" ->
              <<"done", g>>
         [] f.op \in {"refresh_tutor", "refresh_student", "refresh_all"} ->
              IF f.queue = <<>>
              THEN <<"done", [g EXCEPT !.count = @ + 1]>>
              ELSE <<"goc_read",
                     [g EXCEPT !.count = @ + 1,
                               !.student = Head(f.queue)[1],
                               !.tutor = Head(f.queue)[2],
                               !.stats = IF f.op = "refresh_tutor" THEN @
                                         ELSE TutorStats(scores, Head(f.queue)[2]),
                               !.queue = Tail(f.queue)]>>
         [] OTHER ->
              LET h == [g EXCEPT !.cost = (cost_cell(f.i, f.j) :> row.churn_probability) @@ @,
                                 !.pmap = (Pair(f) :> row) @@ @,
                                 !.fresh = @ \cup {Pair(f)},
                                 !.i = NextCell(f)[1],
                                 !.j = NextCell(f)[2]]
              IN <<IF h.i > Len(f.sids) THEN "match_solve" ELSE "match_cell", h>>

BulkOps == {"refresh_tutor", "refresh_student", "refresh_all"}

\* history: a bulk refresh whose loop is left by an exception
Interrupt(history, f) ==
    IF f.op \in BulkOps /\ f.count > 0 THEN history \cup {f.op} ELSE history

\* lines 236-242: look the pair up, then compute the prediction with the
\* classifier load_model returns, which it caches, or with the fallback
GocRead(w) ==
    /\ pc[w] = "goc_read"
    /\ load_model.raises \in Recovered \cup {""}
    /\ LET f == frame[w]
       IN frame' = [frame EXCEPT ![w] =
             [f EXCEPT !.existing =
                           QueryPrediction(match_predictions, f.student, f.tutor),
                       !.data = predict_match(students[f.student], tutors[f.tutor],
                                              f.stats, model_used),
                       !.touched = @ \cup {"prediction_read"}]]
    /\ cached_model' = load_model.model
    /\ cached_feature_names' = load_model.feature_names
    /\ cached_metadata' = load_model.metadata
    /\ pc' = [pc EXCEPT ![w] = "goc_write"]
    /\ UNCHANGED <<students, tutors, match_predictions, tutor_scores, sessions,
                   model_file, nextId, clock, ops,
                   cache, interrupted, joblib, environ, redis, json_files>>

\* line 154: load_model raises an exception that predict_churn_risk does
\* not catch; it propagates out of get_or_create_match_prediction
GocReadRaises(w) ==
    /\ pc[w] = "goc_read"
    /\ load_model.raises \notin Recovered \cup {""}
    /\ frame' = [frame EXCEPT ![w] = [@ EXCEPT !.error = load_model.raises]]
    /\ pc' = [pc EXCEPT ![w] = "error"]
    /\ interrupted' = Interrupt(interrupted, frame[w])
    /\ UNCHANGED <<students, tutors, match_predictions, tutor_scores, sessions,
                   model_file, nextId, clock, ops, cache,
                   joblib, cached_model, cached_feature_names,
                   cached_metadata, environ, redis, json_files>>

\* clear_model_cache, lines 34-44
ClearModelCache ==
    /\ cached_model' = "none"
    /\ cached_feature_names' = "none"
    /\ cached_metadata' = "none"
    /\ ops' = ops + 1
    /\ UNCHANGED <<students, tutors, match_predictions, tutor_scores, sessions,
                   model_file, nextId, clock, pc, frame, cache, interrupted,
                   joblib, environ, redis, json_files>>

\* The states of a JSON file next to the artifact
FileStates == {"absent", "written", "corrupt"}

\* scripts/train_match_model.py has written both files
WrittenFiles == [feature_names |-> "written", metadata |-> "written"]

\* A call of predict_churn_risk that has not loaded anything yet
NoLoadFrame ==
    [op |-> "predict_churn_risk", student |-> "", tutor |-> "", raises |-> "",
     model |-> "none", feature_names |-> "none", metadata |-> "none",
     loaded |-> FALSE, ret |-> 0, error |-> ""]

\* predict_churn_risk line 154: load_model is called
StartPredictChurnRisk(w, s, t) ==
    /\ pc[w] = "idle"
    /\ frame' = [frame EXCEPT ![w] =
          [NoLoadFrame EXCEPT !.student = s, !.tutor = t]]
    /\ pc' = [pc EXCEPT ![w] = "load_model"]
    /\ ops' = ops + 1
    /\ UNCHANGED <<students, tutors, match_predictions, tutor_scores, sessions,
                   model_file, nextId, clock, cache, interrupted,
                   joblib, cached_model, cached_feature_names,
                   cached_metadata, environ, redis, json_files>>

\* load_model lines 76-89: return the cached triple, or raise ImportError or
\* FileNotFoundError (which predict_churn_risk catches), or go on to load
LoadCached(w) ==
    /\ pc[w] = "load_model"
    /\ LET f == frame[w]
       IN IF cached_model # "none"
          THEN /\ frame' = [frame EXCEPT ![w] =
                      [f EXCEPT !.model = cached_model,
                                !.feature_names = cached_feature_names,
                                !.metadata = cached_metadata]]
               /\ pc' = [pc EXCEPT ![w] = "predict"]
          ELSE IF joblib = "none" \/ model_file = "absent"
          THEN /\ frame' = [frame EXCEPT ![w] =
                      [f EXCEPT !.raises = IF joblib = "none" THEN "ImportError"
                                           ELSE "FileNotFoundError"]]
               /\ pc' = [pc EXCEPT ![w] = "predict"]
          ELSE /\ frame' = [frame EXCEPT ![w] = [f EXCEPT !.loaded = TRUE]]
               /\ pc' = [pc EXCEPT ![w] = "load_artifact"]
    /\ UNCHANGED <<students, tutors, match_predictions, tutor_scores, sessions,
                   model_file, nextId, clock, ops, cache, interrupted,
                   joblib, cached_model, cached_feature_names,
                   cached_metadata, environ, redis, json_files>>

\* load_model line 91: _cached_model = joblib.load(model_path)
LoadArtifact(w) ==
    /\ pc[w] = "load_artifact"
    /\ IF model_file \in {"corrupt", "absent"}
       THEN /\ frame' = [frame EXCEPT ![w] =
                   [@ EXCEPT !.error = IF model_file = "corrupt"
                                       THEN "UnpicklingError"
                                       ELSE "FileNotFoundError"]]
            /\ pc' = [pc EXCEPT ![w] = "error"]
            /\ UNCHANGED cached_model
       ELSE /\ cached_model' = model_file
            /\ pc' = [pc EXCEPT ![w] = "load_names"]
            /\ UNCHANGED frame
    /\ UNCHANGED <<students, tutors, match_predictions, tutor_scores, sessions,
                   model_file, nextId, clock, ops, cache, interrupted,
                   joblib, cached_feature_names,
                   cached_metadata, environ, redis, json_files>>

\* what json.load gives for a JSON file written with the artifact
json_load(file, missing) ==
    IF file = "absent" THEN missing ELSE model_file

\* load_model lines 94-101: the feature names, [] when the file is missing;
\* json.load raises JSONDecodeError on a file it cannot parse
LoadFeatureNames(w) ==
    /\ pc[w] = "load_names"
    /\ IF json_files.feature_names = "corrupt"
       THEN /\ frame' = [frame EXCEPT ![w] = [@ EXCEPT !.error = "JSONDecodeError"]]
            /\ pc' = [pc EXCEPT ![w] = "error"]
            /\ UNCHANGED cached_feature_names
       ELSE /\ cached_feature_names' = json_load(json_files.feature_names, "empty")
            /\ pc' = [pc EXCEPT ![w] = "load_metadata"]
            /\ UNCHANGED frame
    /\ UNCHANGED <<students, tutors, match_predictions, tutor_scores, sessions,
                   model_file, nextId, clock, ops, cache, interrupted,
                   joblib, cached_model,
                   cached_metadata, environ, redis, json_files>>

\* load_model lines 104-110: the metadata, {} when the file is missing
LoadMetadata(w) ==
    /\ pc[w] = "load_metadata"
    /\ IF json_files.metadata = "corrupt"
       THEN /\ frame' = [frame EXCEPT ![w] = [@ EXCEPT !.error = "JSONDecodeError"]]
            /\ pc' = [pc EXCEPT ![w] = "error"]
            /\ UNCHANGED cached_metadata
       ELSE /\ cached_metadata' = json_load(json_files.metadata, "empty")
            /\ pc' = [pc EXCEPT ![w] = "load_return"]
            /\ UNCHANGED frame
    /\ UNCHANGED <<students, tutors, match_predictions, tutor_scores, sessions,
                   model_file, nextId, clock, ops, cache, interrupted,
                   joblib, cached_model, cached_feature_names,
                   environ, redis, json_files>>

\* load_model line 112: return the three module globals as they are now
LoadReturn(w) ==
    /\ pc[w] = "load_return"
    /\ frame' = [frame EXCEPT ![w] =
          [@ EXCEPT !.model = cached_model,
                    !.feature_names = cached_feature_names,
                    !.metadata = cached_metadata]]
    /\ pc' = [pc EXCEPT ![w] = "predict"]
    /\ UNCHANGED <<students, tutors, match_predictions, tutor_scores, sessions,
                   model_file, nextId, clock, ops, cache, interrupted,
                   joblib, cached_model, cached_feature_names,
                   cached_metadata, environ, redis, json_files>>

\* predict_churn_risk lines 155-176: the fallback after a caught exception,
\* else model.predict_proba, which raises AttributeError on None
PredictProba(w) ==
    /\ pc[w] = "predict"
    /\ LET f == frame[w]
           tutor_stats == TutorStats(tutor_scores, f.tutor)
       IN IF f.raises = "" /\ f.model = "none"
          THEN /\ frame' = [frame EXCEPT ![w] = [f EXCEPT !.error = "AttributeError"]]
               /\ pc' = [pc EXCEPT ![w] = "error"]
          ELSE /\ frame' = [frame EXCEPT ![w] =
                      [f EXCEPT !.ret =
                          predict_churn_risk(students[f.student], tutors[f.tutor],
                              tutor_stats,
                              IF f.raises # "" THEN "absent" ELSE f.model)]]
               /\ pc' = [pc EXCEPT ![w] = "done"]
    /\ UNCHANGED <<students, tutors, match_predictions, tutor_scores, sessions,
                   model_file, nextId, clock, ops, cache, interrupted,
                   joblib, cached_model, cached_feature_names,
                   cached_metadata, environ, redis, json_files>>

\* The training script named at line 87 writes a new artifact to
\* _get_model_path()
ReplaceArtifact ==
    /\ model_file # "retrained"
    /\ model_file' = "retrained"
    /\ UNCHANGED <<students, tutors, match_predictions, tutor_scores, sessions,
                   nextId, clock, pc, frame, ops, cache, interrupted,
                   joblib, cached_model, cached_feature_names,
                   cached_metadata, environ, redis, json_files>>

\* lines 244-261: a record was found
GocExisting(w) ==
    /\ pc[w] = "goc_write"
    /\ frame[w].existing # NoRow
    /\ LET f == frame[w]
           current == RowById(match_predictions, f.existing.id)
           branch == existing_branch(f.existing, f.data, f.force)
           stored == flush_update(current, f.existing, branch.object)
           committed == branch.commit
           next == Continue([f EXCEPT !.wrote = IF committed
                                                 THEN @ \cup {Pair(f)} ELSE @],
                            IF committed THEN stored ELSE f.existing,
                            committed, tutor_scores)
       IN /\ match_predictions' =
                 IF committed
                 THEN (match_predictions \ {current}) \cup {stored}
                 ELSE match_predictions
          /\ pc' = [pc EXCEPT ![w] = next[1]]
          /\ frame' = [frame EXCEPT ![w] = next[2]]
    /\ UNCHANGED <<students, tutors, tutor_scores, sessions, model_file,
                   nextId, clock, ops,
                   cache, interrupted,
                   joblib, cached_model, cached_feature_names,
                   cached_metadata, environ, redis, json_files>>

\* lines 263-281: no record was found; the insert is accepted
GocInsert(w) ==
    /\ pc[w] = "goc_write"
    /\ frame[w].existing = NoRow
    /\ LET f == frame[w]
           row == Stored(NewMatchPrediction(nextId, f.student, f.tutor, f.data))
           next == Continue([f EXCEPT !.wrote = @ \cup {Pair(f)},
                                      !.touched = @ \cup {"prediction_write"}],
                            row, TRUE, tutor_scores)
       IN /\ insert_accepted(match_predictions, row)
          /\ match_predictions' = match_predictions \cup {row}
          /\ pc' = [pc EXCEPT ![w] = next[1]]
          /\ frame' = [frame EXCEPT ![w] = next[2]]
    /\ nextId' = nextId + 1
    /\ UNCHANGED <<students, tutors, tutor_scores, sessions, model_file,
                   clock, ops,
                   cache, interrupted,
                   joblib, cached_model, cached_feature_names,
                   cached_metadata, environ, redis, json_files>>

\* lines 277-278: no record was found, but the pair has one by now; the
\* INSERT violates the unique constraint and db.commit() raises
\* IntegrityError, which no frame up to the request handler catches
GocInsertConflict(w) ==
    /\ pc[w] = "goc_write"
    /\ frame[w].existing = NoRow
    /\ LET f == frame[w]
           row == Stored(NewMatchPrediction(nextId, f.student, f.tutor, f.data))
       IN /\ ~insert_accepted(match_predictions, row)
          /\ frame' = [frame EXCEPT ![w] = [f EXCEPT !.error = "IntegrityError"]]
    /\ pc' = [pc EXCEPT ![w] = "error"]
    /\ interrupted' = Interrupt(interrupted, frame[w])
    /\ UNCHANGED <<students, tutors, match_predictions, tutor_scores, sessions,
                   model_file, nextId, clock, ops, cache,
                   joblib, cached_model, cached_feature_names,
                   cached_metadata, environ, redis, json_files>>

\* lines 256 / 278: db.commit() fails (the connection is lost); the
\* transaction is rolled back and the exception propagates
GocCommitFails(w) ==
    /\ pc[w] = "goc_write"
    /\ \/ frame[w].existing = NoRow
       \/ existing_branch(frame[w].existing, frame[w].data, frame[w].force).commit
    /\ frame' = [frame EXCEPT ![w] = [@ EXCEPT !.error = "OperationalError"]]
    /\ pc' = [pc EXCEPT ![w] = "error"]
    /\ interrupted' = Interrupt(interrupted, frame[w])
    /\ UNCHANGED <<students, tutors, match_predictions, tutor_scores, sessions,
                   model_file, nextId, clock, ops, cache,
                   joblib, cached_model, cached_feature_names,
                   cached_metadata, environ, redis, json_files>>

\* The handler has returned or raised; the worker takes the next request
Finish(w) ==
    /\ pc[w] \in {"done", "error"}
    /\ pc' = [pc EXCEPT ![w] = "idle"]
    /\ frame' = [frame EXCEPT ![w] = NoFrame]
    /\ UNCHANGED <<students, tutors, match_predictions, tutor_scores, sessions,
                   model_file, nextId, clock, ops,
                   cache, interrupted,
                   joblib, cached_model, cached_feature_names,
                   cached_metadata, environ, redis, json_files>>

\* api/matching.py get_match_prediction_endpoint and any other caller:
\* load the student, the tutor and the tutor's stats, then call
\* get_or_create_match_prediction
StartGetOrCreate(w, s, t, force_refresh) ==
    /\ pc[w] = "idle"
    /\ s \in DOMAIN students
    /\ t \in DOMAIN tutors
    /\ frame' = [frame EXCEPT ![w] =
          [NoFrame EXCEPT !.op = "get_or_create", !.student = s, !.tutor = t,
                          !.force = force_refresh,
                          !.stats = TutorStats(tutor_scores, t)]]
    /\ pc' = [pc EXCEPT ![w] = "goc_read"]
    /\ ops' = ops + 1
    /\ UNCHANGED <<students, tutors, match_predictions, tutor_scores, sessions,
                   model_file, nextId, clock,
                   cache, interrupted,
                   joblib, cached_model, cached_feature_names,
                   cached_metadata, environ, redis, json_files>>

----------------------------------------------------------------------------
(* match_prediction_service.py: the bulk refreshes *)

RECURSIVE Cross(_, _)
\* for x in xs: for y in ys: the pairs <<x, y>> in loop order
Cross(xs, ys) ==
    IF xs = <<>> THEN <<>>
    ELSE [k \in 1..Len(ys) |-> <<Head(xs), ys[k]>>] \o Cross(Tail(xs), ys)

Swap(pairs) == [k \in 1..Len(pairs) |-> <<pairs[k][2], pairs[k][1]>>]

\* variant: the loop calls get_or_create_match_prediction without force_refresh
BulkLoop_without_force(op, pairs, scores, first_stats) ==
    IF pairs = <<>>
    THEN <<"done", [NoFrame EXCEPT !.op = op]>>
    ELSE <<"goc_read",
           [NoFrame EXCEPT !.op = op, !.force = FALSE,
                           !.student = Head(pairs)[1],
                           !.tutor = Head(pairs)[2],
                           !.stats = IF op = "refresh_tutor" THEN first_stats
                                     ELSE TutorStats(scores, Head(pairs)[2]),
                           !.queue = Tail(pairs)]>>

\* The loop of a bulk refresh over its <<student, tutor>> pairs: each
\* iteration calls get_or_create_match_prediction(..., force_refresh=True)
BulkLoop(op, pairs, scores, first_stats) ==
    IF pairs = <<>>
    THEN <<"done", [NoFrame EXCEPT !.op = op]>>
    ELSE <<"goc_read",
           [NoFrame EXCEPT !.op = op, !.force = TRUE,
                           !.student = Head(pairs)[1],
                           !.tutor = Head(pairs)[2],
                           !.stats = IF op = "refresh_tutor" THEN first_stats
                                     ELSE TutorStats(scores, Head(pairs)[2]),
                           !.queue = Tail(pairs)]>>

\* lines 300-324
refresh_tutor_predictions(tutor_id) ==
    IF tutor_id \notin DOMAIN tutors
    THEN <<"done", [NoFrame EXCEPT !.op = "refresh_tutor", !.tutor = tutor_id]>>
    ELSE BulkLoop("refresh_tutor",
                  Cross(SetToSeq(DOMAIN students), <<tutor_id>>),
                  tutor_scores, TutorStats(tutor_scores, tutor_id))

\* lines 343-367
refresh_student_predictions(student_id) ==
    IF student_id \notin DOMAIN students
    THEN <<"done", [NoFrame EXCEPT !.op = "refresh_student", !.student = student_id]>>
    ELSE BulkLoop("refresh_student",
                  Cross(<<student_id>>, SetToSeq(DOMAIN tutors)),
                  tutor_scores, NoStats)

\* variant: every student is paired with the first tutor only
refresh_all_predictions_first_tutor_only ==
    BulkLoop("refresh_all",
             Cross(SetToSeq(DOMAIN students),
                   IF DOMAIN tutors = {} THEN <<>>
                   ELSE <<Head(SetToSeq(DOMAIN tutors))>>),
             tutor_scores, NoStats)

\* lines 385-404
refresh_all_predictions ==
    BulkLoop("refresh_all",
             Swap(Cross(SetToSeq(DOMAIN tutors), SetToSeq(DOMAIN students))),
             tutor_scores, NoStats)

StartRefreshTutor(w, tutor_id) ==
    /\ pc[w] = "idle"
    /\ pc' = [pc EXCEPT ![w] = refresh_tutor_predictions(tutor_id)[1]]
    /\ frame' = [frame EXCEPT ![w] = refresh_tutor_predictions(tutor_id)[2]]
    /\ ops' = ops + 1
    /\ UNCHANGED <<students, tutors, match_predictions, tutor_scores, sessions,
                   model_file, nextId, clock,
                   cache, interrupted,
                   joblib, cached_model, cached_feature_names,
                   cached_metadata, environ, redis, json_files>>

StartRefreshStudent(w, student_id) ==
    /\ pc[w] = "idle"
    /\ pc' = [pc EXCEPT ![w] = refresh_student_predictions(student_id)[1]]
    /\ frame' = [frame EXCEPT ![w] = refresh_student_predictions(student_id)[2]]
    /\ ops' = ops + 1
    /\ UNCHANGED <<students, tutors, match_predictions, tutor_scores, sessions,
                   model_file, nextId, clock,
                   cache, interrupted,
                   joblib, cached_model, cached_feature_names,
                   cached_metadata, environ, redis, json_files>>

StartRefreshAll(w) ==
    /\ pc[w] = "idle"
    /\ pc' = [pc EXCEPT ![w] = refresh_all_predictions[1]]
    /\ frame' = [frame EXCEPT ![w] = refresh_all_predictions[2]]
    /\ ops' = ops + 1
    /\ UNCHANGED <<students, tutors, match_predictions, tutor_scores, sessions,
                   model_file, nextId, clock,
                   cache, interrupted,
                   joblib, cached_model, cached_feature_names,
                   cached_metadata, environ, redis, json_files>>

\* api/matching.py update_tutor_endpoint, lines 196-217: write the profile,
\* commit, then refresh the tutor's predictions
UpdateTutor(w, tutor_id, profile) ==
    /\ pc[w] = "idle"
    /\ tutor_id \in DOMAIN tutors
    /\ profile # tutors[tutor_id]
    /\ tutors' = [tutors EXCEPT ![tutor_id] = profile]
    /\ pc' = [pc EXCEPT ![w] = refresh_tutor_predictions(tutor_id)[1]]
    /\ frame' = [frame EXCEPT ![w] = refresh_tutor_predictions(tutor_id)[2]]
    /\ ops' = ops + 1
    /\ UNCHANGED <<students, match_predictions, tutor_scores, sessions,
                   model_file, nextId, clock,
                   cache, interrupted,
                   joblib, cached_model, cached_feature_names,
                   cached_metadata, environ, redis, json_files>>

\* ai_explanation_service.py update_match_prediction_explanation: cache the
\* explanation text on the record and commit
UpdateExplanation(w, id) ==
    /\ pc[w] = "idle"
    /\ \E row \in match_predictions :
          /\ row.id = id
          /\ row.ai_explanation = ""
          /\ match_predictions' =
                 (match_predictions \ {row})
                 \cup {[row EXCEPT !.ai_explanation = "explanation"]}
    /\ ops' = ops + 1
    /\ UNCHANGED <<students, tutors, tutor_scores, sessions, model_file,
                   nextId, clock, pc, frame,
                   cache, interrupted,
                   joblib, cached_model, cached_feature_names,
                   cached_metadata, environ, redis, json_files>>

----------------------------------------------------------------------------
(* matching_algorithm_service.py *)

Range(seq) == {seq[k] : k \in 1..Len(seq)}

\* whether `from scipy.optimize import linear_sum_assignment` succeeded
scipy_installed == TRUE

\* variant: without the minimum-size check
validate_matching_input_without_minimum(student_ids, tutor_ids) ==
    IF Len(student_ids) # Len(tutor_ids) THEN "ValueError"
    ELSE IF ~scipy_installed THEN "ImportError"
    ELSE ""

\* lines 120-132: the checks run_optimal_matching makes before any work;
\* "" when the input passes
validate_matching_input(student_ids, tutor_ids) ==
    IF Len(student_ids) # Len(tutor_ids) THEN "ValueError"
    ELSE IF Len(student_ids) < 2 THEN "ValueError"
    ELSE IF ~scipy_installed THEN "ImportError"
    ELSE ""

\* lines 52-58: the ids the raised ValueError names; {} when nothing is raised
missing_reported(student_ids, tutor_ids, student_table, tutor_table) ==
    LET missing_students == Range(student_ids) \ DOMAIN student_table
        missing_tutors == Range(tutor_ids) \ DOMAIN tutor_table
    IN IF missing_students # {} THEN missing_students
       ELSE IF missing_tutors # {} THEN missing_tutors
       ELSE {}

Perms(n) == {p \in [1..n -> 1..n] : \A a, b \in 1..n : p[a] = p[b] => a = b}

RECURSIVE SumTo(_, _)
SumTo(g, n) == IF n = 0 THEN 0 ELSE g[n] + SumTo(g, n - 1)

TotalCost(cost, p, n) == SumTo([k \in 1..n |-> cost[<<k, p[k]>>]], n)

\* scipy.optimize.linear_sum_assignment on a square matrix: the row indices
\* 1..n and a column permutation of minimum total cost
linear_sum_assignment(cost, n) ==
    CHOOSE p \in Perms(n) :
        \A q \in Perms(n) : TotalCost(cost, p, n) <= TotalCost(cost, q, n)

\* the object predictions_map holds for a pair, as the result loop reads
\* it: an expired object is reloaded from the table by primary key
PredictionObject(f, pair, table) ==
    IF pair \in f.fresh THEN f.pmap[pair] ELSE RowById(table, f.pmap[pair].id)

\* lines 150-165: one entry of the result per assigned cell
BuildMatches(f, col_indices, table) ==
    [k \in 1..Len(f.sids) |->
        LET prediction ==
                PredictionObject(f, <<f.sids[k], f.tids[col_indices[k]]>>, table)
        IN [student_id |-> f.sids[k],
            tutor_id |-> f.tids[col_indices[k]],
            churn_probability |-> prediction.churn_probability,
            compatibility_score |-> prediction.compatibility_score,
            risk_level |-> prediction.risk_level]]

\* lines 120-132: run_optimal_matching is called and validates its input
StartMatching(w, student_ids, tutor_ids) ==
    /\ pc[w] = "idle"
    /\ LET err == validate_matching_input(student_ids, tutor_ids)
           f == [NoFrame EXCEPT !.op = "run_matching",
                                !.sids = student_ids, !.tids = tutor_ids,
                                !.error = err]
       IN /\ frame' = [frame EXCEPT ![w] = f]
          /\ pc' = [pc EXCEPT ![w] = IF err = "" THEN "match_fetch" ELSE "error"]
    /\ ops' = ops + 1
    /\ UNCHANGED <<students, tutors, match_predictions, tutor_scores, sessions,
                   model_file, nextId, clock,
                   cache, interrupted,
                   joblib, cached_model, cached_feature_names,
                   cached_metadata, environ, redis, json_files>>

\* lines 43-58: build_cost_matrix fetches the profiles and checks them
MatchFetch(w) ==
    /\ pc[w] = "match_fetch"
    /\ LET f == frame[w]
           n == Len(f.sids)
           named == missing_reported(f.sids, f.tids, students, tutors)
           g == [f EXCEPT !.touched = @ \cup {"profile_lookup"},
                          !.cost = [c \in (1..n) \X (1..n) |-> 0],
                          !.i = 1, !.j = 1]
       IN IF named # {}
          THEN /\ frame' = [frame EXCEPT ![w] =
                      [g EXCEPT !.error = "ValueError", !.named = named]]
               /\ pc' = [pc EXCEPT ![w] = "error"]
          ELSE /\ frame' = [frame EXCEPT ![w] = g]
               /\ pc' = [pc EXCEPT ![w] = "match_cell"]
    /\ UNCHANGED <<students, tutors, match_predictions, tutor_scores, sessions,
                   model_file, nextId, clock, ops,
                   cache, interrupted,
                   joblib, cached_model, cached_feature_names,
                   cached_metadata, environ, redis, json_files>>

\* variant: every cell recomputes the pair's prediction, found or not
MatchCell_refreshes_existing(w) ==
    /\ pc[w] = "match_cell"
    /\ LET f == frame[w]
           student_id == f.sids[f.i]
           tutor_id == f.tids[f.j]
           g == [f EXCEPT !.student = student_id, !.tutor = tutor_id,
                          !.touched = @ \cup {"prediction_read"}]
           next == <<"goc_read",
                     [g EXCEPT !.stats = TutorStats(tutor_scores, tutor_id),
                               !.force = TRUE]>>
       IN /\ pc' = [pc EXCEPT ![w] = next[1]]
          /\ frame' = [frame EXCEPT ![w] = next[2]]
    /\ UNCHANGED <<students, tutors, match_predictions, tutor_scores, sessions,
                   model_file, nextId, clock, ops,
                   cache, interrupted,
                   joblib, cached_model, cached_feature_names,
                   cached_metadata, environ, redis, json_files>>

\* lines 61-91: one cell of the matrix: look the pair's prediction up; if
\* there is none, call get_or_create_match_prediction with the tutor's stats
MatchCell(w) ==
    /\ pc[w] = "match_cell"
    /\ LET f == frame[w]
           student_id == f.sids[f.i]
           tutor_id == f.tids[f.j]
           prediction == QueryPrediction(match_predictions, student_id, tutor_id)
           g == [f EXCEPT !.student = student_id, !.tutor = tutor_id,
                          !.touched = @ \cup {"prediction_read"}]
           next == IF prediction # NoRow
                   THEN Continue(g, prediction, FALSE, tutor_scores)
                   ELSE <<"goc_read",
                          [g EXCEPT !.stats = TutorStats(tutor_scores, tutor_id),
                                    !.force = FALSE]>>
       IN /\ pc' = [pc EXCEPT ![w] = next[1]]
          /\ frame' = [frame EXCEPT ![w] = next[2]]
    /\ UNCHANGED <<students, tutors, match_predictions, tutor_scores, sessions,
                   model_file, nextId, clock, ops,
                   cache, interrupted,
                   joblib, cached_model, cached_feature_names,
                   cached_metadata, environ, redis, json_files>>

\* lines 142-178: solve the assignment and build the result
MatchSolve(w) ==
    /\ pc[w] = "match_solve"
    /\ LET f == frame[w]
           col_indices == linear_sum_assignment(f.cost, Len(f.sids))
       IN frame' = [frame EXCEPT ![w] =
              [f EXCEPT !.matches = BuildMatches(f, col_indices, match_predictions)]]
    /\ pc' = [pc EXCEPT ![w] = "done"]
    /\ UNCHANGED <<students, tutors, match_predictions, tutor_scores, sessions,
                   model_file, nextId, clock, ops,
                   cache, interrupted,
                   joblib, cached_model, cached_feature_names,
                   cached_metadata, environ, redis, json_files>>

----------------------------------------------------------------------------
(* reschedule_calculator.py *)

InWindow(table, tutor_id, days, now) ==
    {x \in table : x.tutor_id = tutor_id /\ x.scheduled_time >= now - days}

\* round(x, 2) of x = 100 * r / t, in units of 0.01: round half to even
Round2(r, t) ==
    LET q == (10000 * r) \div t
        rem == (10000 * r) % t
    IN IF 2 * rem > t THEN q + 1
       ELSE IF 2 * rem = t THEN q + (q % 2)
       ELSE q

\* variant: every reschedule is counted, whoever initiated it
get_session_counts_any_initiator(table, tutor_id, days, now) ==
    <<Cardinality(InWindow(table, tutor_id, days, now)),
      Cardinality({x \in InWindow(table, tutor_id, days, now) :
                      x.initiator # "none"})>>

\* lines 63-97: the sessions of the window, and the reschedules joined to
\* them whose initiator is 'tutor'
get_session_counts(table, tutor_id, days, now) ==
    <<Cardinality(InWindow(table, tutor_id, days, now)),
      Cardinality({x \in InWindow(table, tutor_id, days, now) :
                      x.initiator = "tutor"})>>

calculate_reschedule_rate(table, tutor_id, days, now) ==
    LET c == get_session_counts(table, tutor_id, days, now)
    IN IF c[1] = 0 THEN 0 ELSE Round2(c[2], c[1])

----------------------------------------------------------------------------
(* models/tutor_score.py and score_service.py *)

\* variant: only the 7-day rate is compared with the threshold
risk_flag_7d_only(rate_7d, rate_30d, rate_90d, threshold) ==
    (IF rate_7d = None THEN 0 ELSE rate_7d) * 10 > threshold

\* TutorScore.check_risk_flag, lines 105-112; rates in 0.01 percent,
\* threshold in 0.001 percent
risk_flag(rate_7d, rate_30d, rate_90d, threshold) ==
    \E rate \in {rate_7d, rate_30d, rate_90d} :
        (IF rate = None THEN 0 ELSE rate) * 10 > threshold

\* Column(Numeric(5, 2)) for risk_threshold: a value in 0.001 percent is
\* rounded to 0.01 percent on write
StoreThreshold(threshold) == (threshold + 5) \div 10

\* float(self.risk_threshold) of a loaded row, in 0.001 percent
LoadThreshold(stored) == stored * 10

\* __table_args__, lines 46-64: the CHECK constraints of tutor_scores
check_constraints(row) ==
    /\ \A rate \in {row.reschedule_rate_7d, row.reschedule_rate_30d,
                    row.reschedule_rate_90d} :
           rate = None \/ (rate >= 0 /\ rate <= 10000)
    /\ \/ ~row.is_high_risk
       \/ \E rate \in {row.reschedule_rate_7d, row.reschedule_rate_30d,
                       row.reschedule_rate_90d} :
              rate # None /\ rate > row.risk_threshold

\* tutor_id = Column(..., unique=True)
uq_tutor_scores_tutor_id(table, row) ==
    \A r \in table : r.id = row.id \/ r.tutor_id # row.tutor_id

\* TutorScore.update_rates, lines 89-99, on an object whose risk_threshold
\* attribute is `threshold` (0.001 percent); the row as it is flushed
update_rates(id, tutor_id, threshold, rates, counts, now) ==
    [id |-> id, tutor_id |-> tutor_id,
     reschedule_rate_7d |-> rates[1],
     reschedule_rate_30d |-> rates[2],
     reschedule_rate_90d |-> rates[3],
     total_sessions_7d |-> counts[1][1],
     total_sessions_30d |-> counts[2][1],
     total_sessions_90d |-> counts[3][1],
     tutor_reschedules_7d |-> counts[1][2],
     tutor_reschedules_30d |-> counts[2][2],
     tutor_reschedules_90d |-> counts[3][2],
     is_high_risk |-> risk_flag(rates[1], rates[2], rates[3], threshold),
     risk_threshold |-> StoreThreshold(threshold),
     last_calculated_at |-> now]

NoScore == update_rates(0, "", 0, <<0, 0, 0>>, <<<<0, 0>>, <<0, 0>>, <<0, 0>>>>, 0)

NoScoreFrame ==
    [op |-> "none", tutor |-> "", threshold |-> 0,
     rates |-> <<0, 0, 0>>, counts |-> <<<<0, 0>>, <<0, 0>>, <<0, 0>>>>,
     existing |-> NoScore, ret |-> NoScore, error |-> ""]

\* variant: the tutor is not looked up before the rates are computed
StartUpdateScores_without_lookup(w, tutor_id, risk_threshold) ==
    /\ pc[w] = "idle"
    /\ frame' = [frame EXCEPT ![w] =
          [NoScoreFrame EXCEPT !.op = "update_scores", !.tutor = tutor_id,
                               !.threshold = risk_threshold]]
    /\ pc' = [pc EXCEPT ![w] = "score_rates"]
    /\ ops' = ops + 1
    /\ UNCHANGED <<students, tutors, match_predictions, tutor_scores, sessions,
                   model_file, nextId, clock, cache,
                   interrupted,
                   joblib, cached_model, cached_feature_names,
                   cached_metadata, environ, redis, json_files>>

\* score_service.py lines 33-35: the tutor lookup
StartUpdateScores(w, tutor_id, risk_threshold) ==
    /\ pc[w] = "idle"
    /\ frame' = [frame EXCEPT ![w] =
          [NoScoreFrame EXCEPT !.op = "update_scores", !.tutor = tutor_id,
                               !.threshold = risk_threshold,
                               !.error = IF tutor_id \in DOMAIN tutors THEN ""
                                         ELSE "ValueError"]]
    /\ pc' = [pc EXCEPT ![w] = IF tutor_id \in DOMAIN tutors
                               THEN "score_rates" ELSE "error"]
    /\ ops' = ops + 1
    /\ UNCHANGED <<students, tutors, match_predictions, tutor_scores, sessions,
                   model_file, nextId, clock, cache,
                   interrupted,
                   joblib, cached_model, cached_feature_names,
                   cached_metadata, environ, redis, json_files>>

\* lines 38-40: the three rate queries
ScoreRates(w) ==
    /\ pc[w] = "score_rates"
    /\ LET f == frame[w]
       IN frame' = [frame EXCEPT ![w] = [f EXCEPT !.rates =
             <<calculate_reschedule_rate(sessions, f.tutor, 7, clock),
               calculate_reschedule_rate(sessions, f.tutor, 30, clock),
               calculate_reschedule_rate(sessions, f.tutor, 90, clock)>>]]
    /\ pc' = [pc EXCEPT ![w] = "score_counts"]
    /\ UNCHANGED <<students, tutors, match_predictions, tutor_scores, sessions,
                   model_file, nextId, clock, ops, cache,
                   interrupted,
                   joblib, cached_model, cached_feature_names,
                   cached_metadata, environ, redis, json_files>>

\* lines 43-45: the three count queries
ScoreCounts(w) ==
    /\ pc[w] = "score_counts"
    /\ LET f == frame[w]
       IN frame' = [frame EXCEPT ![w] = [f EXCEPT !.counts =
             <<get_session_counts(sessions, f.tutor, 7, clock),
               get_session_counts(sessions, f.tutor, 30, clock),
               get_session_counts(sessions, f.tutor, 90, clock)>>]]
    /\ pc' = [pc EXCEPT ![w] = "score_query"]
    /\ UNCHANGED <<students, tutors, match_predictions, tutor_scores, sessions,
                   model_file, nextId, clock, ops, cache,
                   interrupted,
                   joblib, cached_model, cached_feature_names,
                   cached_metadata, environ, redis, json_files>>

\* line 48: look the tutor's TutorScore up
ScoreQuery(w) ==
    /\ pc[w] = "score_query"
    /\ LET f == frame[w]
       IN frame' = [frame EXCEPT ![w] = [f EXCEPT !.existing =
             IF TutorScoreOf(tutor_scores, f.tutor) = {} THEN NoScore
             ELSE CHOOSE r \in TutorScoreOf(tutor_scores, f.tutor) : TRUE]]
    /\ pc' = [pc EXCEPT ![w] = "score_write"]
    /\ UNCHANGED <<students, tutors, match_predictions, tutor_scores, sessions,
                   model_file, nextId, clock, ops, cache,
                   interrupted,
                   joblib, cached_model, cached_feature_names,
                   cached_metadata, environ, redis, json_files>>

\* lines 50-68: the row update_scores_for_tutor flushes: a new TutorScore
\* with the caller's threshold, or the loaded one with its own threshold
ScoreToFlush(f, id, now) ==
    IF f.existing = NoScore
    THEN update_rates(id, f.tutor, f.threshold, f.rates, f.counts, now)
    ELSE update_rates(f.existing.id, f.tutor,
                      LoadThreshold(f.existing.risk_threshold),
                      f.rates, f.counts, now)

\* db.commit(): the INSERT or UPDATE is accepted iff the row satisfies the
\* table's constraints
score_accepted(table, row) ==
    check_constraints(row) /\ uq_tutor_scores_tutor_id(table, row)

\* db.commit() of the TutorScore: a new object is inserted, a loaded one is
\* updated in the columns whose value changed
ScoreFlushed(table, f, id, now) ==
    IF f.existing = NoScore THEN ScoreToFlush(f, id, now)
    ELSE flush_update(CHOOSE r \in table : r.id = f.existing.id,
                      f.existing, ScoreToFlush(f, id, now))

\* lines 50-72: create or update, commit and refresh
ScoreWrite(w) ==
    /\ pc[w] = "score_write"
    /\ LET f == frame[w]
           row == ScoreFlushed(tutor_scores, f, nextId, clock)
       IN /\ score_accepted(tutor_scores, row)
          /\ tutor_scores' = {r \in tutor_scores : r.id # row.id} \cup {row}
          /\ frame' = [frame EXCEPT ![w] = [f EXCEPT !.ret = row]]
          /\ nextId' = IF f.existing = NoScore THEN nextId + 1 ELSE nextId
    /\ pc' = [pc EXCEPT ![w] = "score_invalidate"]
    /\ UNCHANGED <<students, tutors, match_predictions, sessions, model_file,
                   clock, ops, cache,
                   interrupted,
                   joblib, cached_model, cached_feature_names,
                   cached_metadata, environ, redis, json_files>>

\* line 71: the commit is rejected by a constraint; IntegrityError propagates
ScoreWriteRejected(w) ==
    /\ pc[w] = "score_write"
    /\ ~score_accepted(tutor_scores,
                       ScoreFlushed(tutor_scores, frame[w], nextId, clock))
    /\ frame' = [frame EXCEPT ![w] = [@ EXCEPT !.error = "IntegrityError"]]
    /\ pc' = [pc EXCEPT ![w] = "error"]
    /\ UNCHANGED <<students, tutors, match_predictions, tutor_scores, sessions,
                   model_file, nextId, clock, ops, cache,
                   interrupted,
                   joblib, cached_model, cached_feature_names,
                   cached_metadata, environ, redis, json_files>>

\* cache.py get_tutor_score, lines 36-58: None when there is no client, the
\* call raises or nothing is cached
get_tutor_score(tutor_id) ==
    IF redis = "down" THEN NoScore ELSE cache[tutor_id]

\* cache.py set_tutor_score, lines 61-84: the cache afterwards
set_tutor_score(tutor_id, score) ==
    IF redis = "down" THEN cache ELSE [cache EXCEPT ![tutor_id] = score]

\* cache.py invalidate_tutor_score, lines 87-108: the cache afterwards
invalidate_tutor_score(tutor_id) ==
    IF redis = "down" THEN cache ELSE [cache EXCEPT ![tutor_id] = NoScore]

\* lines 75-77: delete the tutor's cache entry; a failure is only logged
ScoreInvalidate(w) ==
    /\ pc[w] = "score_invalidate"
    /\ cache' = invalidate_tutor_score(frame[w].tutor)
    /\ pc' = [pc EXCEPT ![w] = "done"]
    /\ UNCHANGED <<students, tutors, match_predictions, tutor_scores, sessions,
                   model_file, nextId, clock, ops, frame,
                   interrupted,
                   joblib, cached_model, cached_feature_names,
                   cached_metadata, environ, redis, json_files>>

\* score_service.py check_risk_flag, lines 92-101: recompute the flag of
\* the stored row from its own rates and threshold and commit
CheckRiskFlag(tutor_id, threshold) ==
    /\ \E r \in tutor_scores :
          /\ r.tutor_id = tutor_id
          /\ LET row == [r EXCEPT !.is_high_risk =
                            risk_flag(r.reschedule_rate_7d, r.reschedule_rate_30d,
                                      r.reschedule_rate_90d,
                                      LoadThreshold(r.risk_threshold))]
             IN /\ check_constraints(row)
                /\ tutor_scores' = (tutor_scores \ {r}) \cup {row}
    /\ ops' = ops + 1
    /\ UNCHANGED <<students, tutors, match_predictions, sessions, model_file,
                   nextId, clock, pc, frame, cache,
                   interrupted,
                   joblib, cached_model, cached_feature_names,
                   cached_metadata, environ, redis, json_files>>

\* tutor_service.py get_tutor_by_id, lines 81-107.  The cached value is
\* TutorScore.to_dict() of the row that was read.
NoTutorFrame ==
    [op |-> "get_tutor", tutor |-> "", cached |-> NoScore,
     existing |-> NoScore, error |-> ""]

\* line 95: cached_score = get_tutor_score(tutor_id)
StartGetTutor(w, tutor_id) ==
    /\ pc[w] = "idle"
    /\ frame' = [frame EXCEPT ![w] =
          [NoTutorFrame EXCEPT !.tutor = tutor_id,
                               !.cached = get_tutor_score(tutor_id)]]
    /\ pc' = [pc EXCEPT ![w] = "tutor_query"]
    /\ ops' = ops + 1
    /\ UNCHANGED <<students, tutors, match_predictions, tutor_scores, sessions,
                   model_file, nextId, clock, cache,
                   interrupted,
                   joblib, cached_model, cached_feature_names,
                   cached_metadata, environ, redis, json_files>>

\* variant: a cached score is returned instead of the stored one
TutorQuery_prefers_cache(w) ==
    /\ pc[w] = "tutor_query"
    /\ LET f == frame[w]
       IN frame' = [frame EXCEPT ![w] = [f EXCEPT !.existing =
             IF f.cached # NoScore THEN f.cached
             ELSE IF f.tutor \notin DOMAIN tutors
                    \/ TutorScoreOf(tutor_scores, f.tutor) = {}
             THEN NoScore
             ELSE CHOOSE r \in TutorScoreOf(tutor_scores, f.tutor) : TRUE]]
    /\ pc' = [pc EXCEPT ![w] = "tutor_cache"]
    /\ UNCHANGED <<students, tutors, match_predictions, tutor_scores, sessions,
                   model_file, nextId, clock, ops, cache,
                   interrupted,
                   joblib, cached_model, cached_feature_names,
                   cached_metadata, environ, redis, json_files>>

\* lines 97-99: the tutor with its tutor_score, joined
TutorQuery(w) ==
    /\ pc[w] = "tutor_query"
    /\ LET f == frame[w]
       IN frame' = [frame EXCEPT ![w] = [f EXCEPT !.existing =
             IF f.tutor \notin DOMAIN tutors
                    \/ TutorScoreOf(tutor_scores, f.tutor) = {}
             THEN NoScore
             ELSE CHOOSE r \in TutorScoreOf(tutor_scores, f.tutor) : TRUE]]
    /\ pc' = [pc EXCEPT ![w] = "tutor_cache"]
    /\ UNCHANGED <<students, tutors, match_predictions, tutor_scores, sessions,
                   model_file, nextId, clock, ops, cache,
                   interrupted,
                   joblib, cached_model, cached_feature_names,
                   cached_metadata, environ, redis, json_files>>

\* lines 101-104: cache the score when there is one and none was cached
TutorCache(w) ==
    /\ pc[w] = "tutor_cache"
    /\ LET f == frame[w]
       IN cache' = IF f.existing # NoScore /\ f.cached = NoScore
                   THEN set_tutor_score(f.tutor, f.existing)
                   ELSE cache
    /\ pc' = [pc EXCEPT ![w] = "done"]
    /\ UNCHANGED <<students, tutors, match_predictions, tutor_scores, sessions,
                   model_file, nextId, clock, ops, frame,
                   interrupted,
                   joblib, cached_model, cached_feature_names,
                   cached_metadata, environ, redis, json_files>>

\* The Redis server becomes unreachable, or reachable again with the
\* entries it held
RedisDown ==
    /\ redis = "up"
    /\ json_files = WrittenFiles
    /\ redis' = "down"
    /\ UNCHANGED <<students, tutors, match_predictions, tutor_scores, sessions,
                   model_file, nextId, clock, pc, frame, ops, cache,
                   interrupted, joblib, cached_model, cached_feature_names,
                   cached_metadata, environ, json_files>>

RedisUp ==
    /\ redis = "down"
    /\ redis' = "up"
    /\ UNCHANGED <<students, tutors, match_predictions, tutor_scores, sessions,
                   model_file, nextId, clock, pc, frame, ops, cache,
                   interrupted, joblib, cached_model, cached_feature_names,
                   cached_metadata, environ, json_files>>

\* predict_match line 205 and predict_reschedule line 242: the risk level
\* of a probability, for the match service or the reschedule service
NoRiskFrame ==
    [op |-> "risk_level", service |-> "", probability |-> 0, ret |-> "",
     tutor |-> "", error |-> ""]

DetermineRiskLevel(w, service, probability) ==
    /\ pc[w] = "idle"
    /\ frame' = [frame EXCEPT ![w] =
          [NoRiskFrame EXCEPT
              !.service = service, !.probability = probability,
              !.ret = IF service = "match"
                      THEN determine_risk_level(probability)
                      ELSE reschedule_determine_risk_level(probability)]]
    /\ pc' = [pc EXCEPT ![w] = "done"]
    /\ ops' = ops + 1
    /\ UNCHANGED <<students, tutors, match_predictions, tutor_scores, sessions,
                   model_file, nextId, clock, cache, interrupted,
                   joblib, cached_model, cached_feature_names,
                   cached_metadata, environ, redis, json_files>>

\* session_service.py create_session, lines 33-93: insert the session, its
\* reschedule when the status is 'rescheduled', and the tutor if unknown.
\* The session's id numbers it among the sessions with the same columns.
NewTutor == [age |-> None, preferred_pace |-> None, teaching_style |-> "",
             communication_style |-> None]

CreateSession(tutor_id, scheduled_time, status, initiator) ==
    /\ Cardinality(sessions) < MaxSessions
    /\ (status = "rescheduled") = (initiator # "none")
    /\ sessions' = sessions \cup
          {[id |-> 1 + Cardinality({x \in sessions :
                                       /\ x.tutor_id = tutor_id
                                       /\ x.scheduled_time = scheduled_time
                                       /\ x.status = status
                                       /\ x.initiator = initiator}),
            tutor_id |-> tutor_id,
            scheduled_time |-> scheduled_time, status |-> status,
            initiator |-> initiator]}
    /\ tutors' = IF tutor_id \in DOMAIN tutors THEN tutors
                 ELSE (tutor_id :> NewTutor) @@ tutors
    /\ UNCHANGED <<students, match_predictions, tutor_scores, model_file,
                   nextId, clock, pc, frame, ops, cache,
                   interrupted,
                   joblib, cached_model, cached_feature_names,
                   cached_metadata, environ, redis, json_files>>

\* time passes
Tick ==
    /\ clock < MaxClock
    /\ clock' = clock + 10
    /\ UNCHANGED <<students, tutors, match_predictions, tutor_scores, sessions,
                   model_file, nextId, pc, frame, ops, cache,
                   interrupted,
                   joblib, cached_model, cached_feature_names,
                   cached_metadata, environ, redis, json_files>>

----------------------------------------------------------------------------
(* tasks/session_processor.py *)

\* line 17: @celery_app.task(bind=True, max_retries=3)
max_retries == 3

\* A session id that no session has
NoSession == [id |-> 0, tutor_id |-> "", scheduled_time |-> 0,
              status |-> "", initiator |-> ""]

\* One delivery of process_session: retries is self.request.retries, db the
\* session of line 36, exc the exception the except clause caught, error
\* what the run raises, countdowns the countdowns of the retries so far
NoTaskFrame ==
    [op |-> "process_session", session_id |-> NoSession, tutor |-> "",
     retries |-> 0, db |-> "none", exc |-> "", error |-> "",
     countdowns |-> <<>>, email |-> "", outcome |-> "", ret |-> NoScore]

\* A worker takes the task from the queue
StartProcessSession(w, session_id) ==
    /\ pc[w] = "idle"
    /\ frame' = [frame EXCEPT ![w] =
          [NoTaskFrame EXCEPT !.session_id = session_id]]
    /\ pc' = [pc EXCEPT ![w] = "task_open"]
    /\ ops' = ops + 1
    /\ UNCHANGED <<students, tutors, match_predictions, tutor_scores, sessions,
                   model_file, nextId, clock, cache, interrupted,
                   joblib, cached_model, cached_feature_names,
                   cached_metadata, environ, redis, json_files>>

\* lines 33-36: db = SessionLocal(), which may raise
TaskOpen(w) ==
    /\ pc[w] = "task_open"
    /\ \E opened \in BOOLEAN :
          IF opened
          THEN /\ frame' = [frame EXCEPT ![w] = [@ EXCEPT !.db = "open"]]
               /\ pc' = [pc EXCEPT ![w] = "task_fetch"]
          ELSE /\ frame' = [frame EXCEPT ![w] = [@ EXCEPT !.exc = "OperationalError"]]
               /\ pc' = [pc EXCEPT ![w] = "task_except"]
    /\ UNCHANGED <<students, tutors, match_predictions, tutor_scores, sessions,
                   model_file, nextId, clock, ops, cache, interrupted,
                   joblib, cached_model, cached_feature_names,
                   cached_metadata, environ, redis, json_files>>

\* lines 41-48: fetch the session and its tutor, ValueError if one is missing
TaskFetch(w) ==
    /\ pc[w] = "task_fetch"
    /\ LET f == frame[w]
       IN IF f.session_id \in sessions /\ f.session_id.tutor_id \in DOMAIN tutors
          THEN /\ frame' = [frame EXCEPT ![w] =
                      [f EXCEPT !.tutor = f.session_id.tutor_id]]
               /\ pc' = [pc EXCEPT ![w] = "task_update"]
          ELSE /\ frame' = [frame EXCEPT ![w] = [f EXCEPT !.exc = "ValueError"]]
               /\ pc' = [pc EXCEPT ![w] = "task_except"]
    /\ UNCHANGED <<students, tutors, match_predictions, tutor_scores, sessions,
                   model_file, nextId, clock, ops, cache, interrupted,
                   joblib, cached_model, cached_feature_names,
                   cached_metadata, environ, redis, json_files>>

\* score_service.py lines 37-68 for the call of line 52: the rates, the
\* counts and the loaded TutorScore, as update_scores_for_tutor holds them
ScoreCall(tutor_id, risk_threshold) ==
    [NoScoreFrame EXCEPT
        !.op = "update_scores", !.tutor = tutor_id,
        !.threshold = risk_threshold,
        !.rates = <<calculate_reschedule_rate(sessions, tutor_id, 7, clock),
                    calculate_reschedule_rate(sessions, tutor_id, 30, clock),
                    calculate_reschedule_rate(sessions, tutor_id, 90, clock)>>,
        !.counts = <<get_session_counts(sessions, tutor_id, 7, clock),
                     get_session_counts(sessions, tutor_id, 30, clock),
                     get_session_counts(sessions, tutor_id, 90, clock)>>,
        !.existing = IF TutorScoreOf(tutor_scores, tutor_id) = {} THEN NoScore
                     ELSE CHOOSE r \in TutorScoreOf(tutor_scores, tutor_id) : TRUE]

\* line 52: update_scores_for_tutor(str(tutor.id), db) with the default
\* threshold, as one step: it commits the summary and invalidates the cache
\* entry, or the commit fails and the exception propagates
TaskUpdateScores(w) ==
    /\ pc[w] = "task_update"
    /\ LET f == frame[w]
           g == ScoreCall(f.tutor, 15000)
           row == ScoreFlushed(tutor_scores, g, nextId, clock)
       IN \E committed \in BOOLEAN :
             IF committed /\ score_accepted(tutor_scores, row)
             THEN /\ tutor_scores' = {r \in tutor_scores : r.id # row.id} \cup {row}
                  /\ nextId' = IF g.existing = NoScore THEN nextId + 1 ELSE nextId
                  /\ cache' = invalidate_tutor_score(f.tutor)
                  /\ frame' = [frame EXCEPT ![w] = [f EXCEPT !.ret = row]]
                  /\ pc' = [pc EXCEPT ![w] = "task_email"]
             ELSE /\ frame' = [frame EXCEPT ![w] =
                         [f EXCEPT !.exc = IF committed THEN "IntegrityError"
                                           ELSE "OperationalError"]]
                  /\ pc' = [pc EXCEPT ![w] = "task_except"]
                  /\ UNCHANGED <<tutor_scores, nextId, cache>>
    /\ UNCHANGED <<students, tutors, match_predictions, sessions,
                   model_file, clock, ops, interrupted,
                   joblib, cached_model, cached_feature_names,
                   cached_metadata, environ, redis, json_files>>

\* lines 56-70: send_email_report.delay; a failure is logged and the task
\* returns its result all the same
TaskQueueEmail(w) ==
    /\ pc[w] = "task_email"
    /\ \E queued \in BOOLEAN :
          frame' = [frame EXCEPT ![w] =
              [@ EXCEPT !.email = IF queued THEN "queued" ELSE "failed",
                        !.outcome = "success"]]
    /\ pc' = [pc EXCEPT ![w] = "task_finally"]
    /\ UNCHANGED <<students, tutors, match_predictions, tutor_scores, sessions,
                   model_file, nextId, clock, ops, cache, interrupted,
                   joblib, cached_model, cached_feature_names,
                   cached_metadata, environ, redis, json_files>>

\* variant: the retry test is <= instead of <
TaskExcept_one_more_retry(w) ==
    /\ pc[w] = "task_except"
    /\ LET f == frame[w]
       IN frame' = [frame EXCEPT ![w] =
             IF f.retries <= max_retries
             THEN [f EXCEPT !.countdowns = Append(@, 60 * (f.retries + 1)),
                            !.error = "Retry", !.outcome = "retry"]
             ELSE [f EXCEPT !.error = f.exc, !.outcome = "failure"]]
    /\ pc' = [pc EXCEPT ![w] = "task_finally"]
    /\ UNCHANGED <<students, tutors, match_predictions, tutor_scores, sessions,
                   model_file, nextId, clock, ops, cache, interrupted,
                   joblib, cached_model, cached_feature_names,
                   cached_metadata, environ, redis, json_files>>

\* lines 72-82: raise self.retry(exc=exc, countdown=60 * (retries + 1))
\* while retries < max_retries, else raise exc
TaskExcept(w) ==
    /\ pc[w] = "task_except"
    /\ LET f == frame[w]
       IN frame' = [frame EXCEPT ![w] =
             IF f.retries < max_retries
             THEN [f EXCEPT !.countdowns = Append(@, 60 * (f.retries + 1)),
                            !.error = "Retry", !.outcome = "retry"]
             ELSE [f EXCEPT !.error = f.exc, !.outcome = "failure"]]
    /\ pc' = [pc EXCEPT ![w] = "task_finally"]
    /\ UNCHANGED <<students, tutors, match_predictions, tutor_scores, sessions,
                   model_file, nextId, clock, ops, cache, interrupted,
                   joblib, cached_model, cached_feature_names,
                   cached_metadata, environ, redis, json_files>>

\* lines 84-87: if db: db.close(); then the run returns or raises
TaskFinally(w) ==
    /\ pc[w] = "task_finally"
    /\ LET f == frame[w]
       IN /\ frame' = [frame EXCEPT ![w] =
                [f EXCEPT !.db = IF f.db = "none" THEN "none" ELSE "closed"]]
          /\ pc' = [pc EXCEPT ![w] =
                CASE f.outcome = "success" -> "done"
                  [] f.outcome = "retry" -> "retry"
                  [] OTHER -> "error"]
    /\ UNCHANGED <<students, tutors, match_predictions, tutor_scores, sessions,
                   model_file, nextId, clock, ops, cache, interrupted,
                   joblib, cached_model, cached_feature_names,
                   cached_metadata, environ, redis, json_files>>

\* Celery delivers the retry: the same task with request.retries + 1
TaskRedeliver(w) ==
    /\ pc[w] = "retry"
    /\ frame' = [frame EXCEPT ![w] =
          [NoTaskFrame EXCEPT !.session_id = frame[w].session_id,
                              !.retries = frame[w].retries + 1,
                              !.countdowns = frame[w].countdowns]]
    /\ pc' = [pc EXCEPT ![w] = "task_open"]
    /\ UNCHANGED <<students, tutors, match_predictions, tutor_scores, sessions,
                   model_file, nextId, clock, ops, cache, interrupted,
                   joblib, cached_model, cached_feature_names,
                   cached_metadata, environ, redis, json_files>>

----------------------------------------------------------------------------
(* Initial states and specifications *)

StudentA == [age |-> 15, preferred_pace |-> 3,
             preferred_teaching_style |-> "structured",
             communication_style_preference |-> 3]
StudentB == [age |-> 17, preferred_pace |-> 5,
             preferred_teaching_style |-> "Flexible",
             communication_style_preference |-> 1]
StudentC == [age |-> 12, preferred_pace |-> 1,
             preferred_teaching_style |-> "flexible",
             communication_style_preference |-> 5]

TutorA == [age |-> 30, preferred_pace |-> 3, teaching_style |-> "Structured",
           communication_style |-> 3]
TutorB == [age |-> 20, preferred_pace |-> 5, teaching_style |-> "flexible",
           communication_style |-> 2]
TutorC == [age |-> 45, preferred_pace |-> 1, teaching_style |-> "structured",
           communication_style |-> 1]

AllStudentIds == {"s1", "s2", "s3", "s9"}
AllTutorIds == {"t1", "t2", "t3", "t9"}

\* Two sessions of tutor t1, one of them rescheduled by the tutor, and the
\* TutorScore that update_scores_for_tutor("t1") computed from them
ScoredSessions ==
    {[id |-> 1, tutor_id |-> "t1", scheduled_time |-> 97,
      status |-> "completed", initiator |-> "none"],
     [id |-> 1, tutor_id |-> "t1", scheduled_time |-> 80,
      status |-> "rescheduled", initiator |-> "tutor"]}

ScoredRow ==
    update_rates(3, "t1", 15000,
        <<calculate_reschedule_rate(ScoredSessions, "t1", 7, 100),
          calculate_reschedule_rate(ScoredSessions, "t1", 30, 100),
          calculate_reschedule_rate(ScoredSessions, "t1", 90, 100)>>,
        <<get_session_counts(ScoredSessions, "t1", 7, 100),
          get_session_counts(ScoredSessions, "t1", 30, 100),
          get_session_counts(ScoredSessions, "t1", 90, 100)>>,
        100)

\* A process that has the ML libraries and has predicted before: the
\* classifier is cached when its artifact exists
ModelLoaded ==
    /\ joblib = "installed"
    /\ cached_model = (IF model_file = "absent" THEN "none" ELSE model_file)
    /\ cached_feature_names = cached_model
    /\ cached_metadata = cached_model

InitCommon ==
    /\ clock = 100
    /\ model_file \in {"absent", "present"}
    /\ \/ sessions = {} /\ tutor_scores = {} /\ nextId = 1
       \/ sessions = ScoredSessions /\ tutor_scores = {ScoredRow} /\ nextId = 4
    /\ match_predictions = {}
    /\ pc = [w \in Workers |-> "idle"]
    /\ frame = [w \in Workers |-> NoFrame]
    /\ ops = 0
    /\ cache = [t \in AllTutorIds |-> NoScore]
    /\ interrupted = {}
    /\ environ = [name \in EnvNames |-> Unset]
    /\ redis = "up"
    /\ json_files = WrittenFiles
    /\ ModelLoaded

InitStore ==
    /\ InitCommon
    /\ students = ("s1" :> StudentA) @@ ("s2" :> StudentB)
    /\ tutors = ("t1" :> TutorA) @@ ("t2" :> NewTutor)

GocSteps(w) ==
    \/ GocRead(w)
    \/ GocExisting(w)
    \/ GocInsert(w)
    \/ GocInsertConflict(w)

MatchSteps(w) ==
    \/ MatchFetch(w)
    \/ MatchCell(w)
    \/ MatchSolve(w)

StoreRequests(w, bound, profiles) ==
    /\ ops < bound
    /\ \/ \E s \in DOMAIN students, t \in DOMAIN tutors, force \in BOOLEAN :
             StartGetOrCreate(w, s, t, force)
       \/ \E t \in DOMAIN tutors \cup {"t9"} : StartRefreshTutor(w, t)
       \/ \E s \in DOMAIN students \cup {"s9"} : StartRefreshStudent(w, s)
       \/ StartRefreshAll(w)
       \/ \E t \in DOMAIN tutors, p \in profiles : UpdateTutor(w, t, p)
       \/ StartMatching(w, <<"s1", "s2">>, <<"t1", "t2">>)
       \/ \E row \in match_predictions : UpdateExplanation(w, row.id)

\* Concurrent request handlers on the prediction store
NextStore ==
    \E w \in Workers :
        \/ StoreRequests(w, MaxOps, {TutorB})
        \/ GocSteps(w)
        \/ MatchSteps(w)
        \/ Finish(w)

\* The store before any prediction exists; tutor t1 has been scored
InitRace ==
    /\ InitStore
    /\ model_file = "present"
    /\ tutor_scores # {}

SpecStore == InitRace /\ [][NextStore]_vars

\* One request handler at a time; a commit may fail
NextSeq ==
    \/ StoreRequests("w1", MaxSeqOps, {TutorB, NewTutor})
    \/ GocRead("w1")
    \/ GocExisting("w1")
    \/ GocInsert("w1")
    \/ GocCommitFails("w1")
    \/ MatchSteps("w1")
    \/ Finish("w1")

\* The store before any prediction exists, with or without the classifier
InitSeq ==
    /\ InitStore
    /\ tutor_scores # {}

SpecSeq == InitSeq /\ [][NextSeq]_vars

SeqsUpTo(S, n) == UNION {[1..k -> S] : k \in 0..n}

InitMatch ==
    /\ InitCommon
    /\ model_file = "present"
    /\ tutor_scores # {}
    /\ students = ("s1" :> StudentA) @@ ("s2" :> StudentB) @@ ("s3" :> StudentC)
    /\ tutors = ("t1" :> TutorA) @@ ("t2" :> TutorB) @@ ("t3" :> TutorC)

\* One call of run_optimal_matching on every input
NextMatch ==
    \/ /\ ops = 0
       /\ \E student_ids \in SeqsUpTo(AllStudentIds, MaxLen),
             tutor_ids \in SeqsUpTo(AllTutorIds, MaxLen) :
             StartMatching("w1", student_ids, tutor_ids)
    \/ MatchSteps("w1")
    \/ GocRead("w1")
    \/ GocInsert("w1")

SpecMatch == InitMatch /\ [][NextMatch]_vars

Thresholds == {15000, 49996}

\* scheduled times of new sessions: within 7 and within 30 days of the
\* initial clock
SessionTimes == {95, 75}

InitScore ==
    /\ clock = 100
    /\ model_file = "absent"
    /\ sessions = {} /\ tutor_scores = {} /\ nextId = 1
    /\ match_predictions = {}
    /\ students = ("s1" :> StudentA)
    /\ tutors = ("t1" :> TutorA)
    /\ pc = [w \in Workers |-> "idle"]
    /\ frame = [w \in Workers |-> NoFrame]
    /\ ops = 0
    /\ cache = [t \in AllTutorIds |-> NoScore]
    /\ interrupted = {}
    /\ environ = [name \in EnvNames |-> Unset]
    /\ redis = "up"
    /\ json_files = WrittenFiles
    /\ ModelLoaded

ScoreSteps(w) ==
    \/ ScoreRates(w)
    \/ ScoreCounts(w)
    \/ ScoreQuery(w)
    \/ ScoreWrite(w)
    \/ ScoreWriteRejected(w)
    \/ ScoreInvalidate(w)

\* Recomputations of tutor scores, one at a time, while sessions arrive
NextScore ==
    \/ /\ ops < MaxScoreOps
       /\ \E t \in {"t1", "t9"}, threshold \in Thresholds :
             StartUpdateScores("w1", t, threshold)
    \/ ScoreSteps("w1")
    \/ Finish("w1")
    \/ /\ ops < MaxScoreOps
       /\ \E threshold \in Thresholds : CheckRiskFlag("t1", threshold)
    \/ \E t \in {"t1"}, time \in SessionTimes,
          kind \in {<<"completed", "none">>, <<"rescheduled", "tutor">>} :
          CreateSession(t, time, kind[1], kind[2])
    \/ Tick

SpecScore == InitScore /\ [][NextScore]_vars

\* Two workers recompute the score of tutor t1, which has no TutorScore yet
InitScoreRace ==
    /\ clock = 100
    /\ model_file = "absent"
    /\ sessions \in {{}, ScoredSessions}
    /\ tutor_scores = {} /\ nextId = 1
    /\ match_predictions = {}
    /\ students = ("s1" :> StudentA)
    /\ tutors = ("t1" :> TutorA)
    /\ pc = [w \in Workers |-> "idle"]
    /\ frame = [w \in Workers |-> NoFrame]
    /\ ops = 0
    /\ cache = [t \in AllTutorIds |-> NoScore]
    /\ interrupted = {}
    /\ environ = [name \in EnvNames |-> Unset]
    /\ redis = "up"
    /\ json_files = WrittenFiles
    /\ ModelLoaded

\* session_processor.py process_session in two Celery workers: each calls
\* update_scores_for_tutor with the default threshold
NextScoreRace ==
    \E w \in Workers :
        \/ ops < MaxOps /\ StartUpdateScores(w, "t1", 15000)
        \/ ScoreSteps(w)
        \/ Finish(w)

SpecScoreRace == InitScoreRace /\ [][NextScoreRace]_vars

\* Tutor t1 with or without its TutorScore; the score cache is empty
InitScoreCache ==
    /\ InitCommon
    /\ model_file = "absent"
    /\ students = ("s1" :> StudentA)
    /\ tutors = ("t1" :> TutorA)

\* Score recomputations and tutor detail reads, one at a time, for a known
\* and an unknown tutor id
NextScoreCache ==
    \/ /\ ops < MaxSeqOps
       /\ \E t \in {"t1", "t9"} :
             \/ StartUpdateScores("w1", t, 15000)
             \/ StartGetTutor("w1", t)
    \/ ScoreRates("w1")
    \/ ScoreCounts("w1")
    \/ ScoreQuery("w1")
    \/ ScoreWrite("w1")
    \/ ScoreInvalidate("w1")
    \/ TutorQuery("w1")
    \/ TutorCache("w1")
    \/ Finish("w1")

SpecScoreCache == InitScoreCache /\ [][NextScoreCache]_vars

\* Score recomputations and tutor detail reads of tutor t1, one at a time,
\* while time passes and the Redis server goes down and comes back
NextRedis ==
    \/ /\ ops < MaxSeqOps
       /\ \/ StartUpdateScores("w1", "t1", 15000)
          \/ StartGetTutor("w1", "t1")
    \/ ScoreRates("w1")
    \/ ScoreCounts("w1")
    \/ ScoreQuery("w1")
    \/ ScoreWrite("w1")
    \/ ScoreInvalidate("w1")
    \/ TutorQuery("w1")
    \/ TutorCache("w1")
    \/ Finish("w1")
    \/ Tick
    \/ RedisDown
    \/ RedisUp

SpecRedis == InitScoreCache /\ [][NextRedis]_vars

\* Tutor t1 has a TutorScore; the score cache is empty
InitCacheRace ==
    /\ InitScoreCache
    /\ tutor_scores # {}

\* Score recomputations and tutor detail reads of tutor t1 in two workers,
\* while time passes
NextCacheRace ==
    \/ \E w \in Workers :
          \/ /\ ops < MaxOps
             /\ \/ StartUpdateScores(w, "t1", 15000)
                \/ StartGetTutor(w, "t1")
          \/ ScoreRates(w)
          \/ ScoreCounts(w)
          \/ ScoreQuery(w)
          \/ ScoreWrite(w)
          \/ ScoreInvalidate(w)
          \/ TutorQuery(w)
          \/ TutorCache(w)
          \/ Finish(w)
    \/ Tick

SpecCacheRace == InitCacheRace /\ [][NextCacheRace]_vars

\* A fresh process: nothing is cached; the ML libraries may be missing and
\* the artifact may be absent, loadable or corrupt
InitModel ==
    /\ clock = 100
    /\ model_file \in {"absent", "present", "corrupt"}
    /\ joblib \in {"none", "installed"}
    /\ cached_model = "none"
    /\ cached_feature_names = "none"
    /\ cached_metadata = "none"
    /\ sessions = ScoredSessions /\ tutor_scores = {ScoredRow} /\ nextId = 4
    /\ match_predictions = {}
    /\ students = ("s1" :> StudentA)
    /\ tutors = ("t1" :> TutorA)
    /\ pc = [w \in Workers |-> "idle"]
    /\ frame = [w \in Workers |-> NoFrame]
    /\ ops = 0
    /\ cache = [t \in AllTutorIds |-> NoScore]
    /\ interrupted = {}
    /\ environ = [name \in EnvNames |-> Unset]
    /\ redis = "up"
    /\ json_files = WrittenFiles

\* Predictions of one process, one at a time; between them the cache may
\* be cleared, and at any time the artifact may be replaced
NextModel ==
    \/ /\ ops < MaxModelOps
       /\ \E force \in BOOLEAN : StartGetOrCreate("w1", "s1", "t1", force)
    \/ /\ ops < MaxModelOps
       /\ pc["w1"] = "idle"
       /\ ClearModelCache
    \/ ReplaceArtifact
    \/ GocRead("w1")
    \/ GocReadRaises("w1")
    \/ GocExisting("w1")
    \/ GocInsert("w1")
    \/ Finish("w1")

SpecModel == InitModel /\ [][NextModel]_vars

LoadSteps(w) ==
    \/ LoadCached(w)
    \/ LoadArtifact(w)
    \/ LoadFeatureNames(w)
    \/ LoadMetadata(w)
    \/ LoadReturn(w)
    \/ PredictProba(w)

\* A fresh process with a loadable artifact and both JSON files
InitLoadRace ==
    /\ InitModel
    /\ model_file = "present"
    /\ joblib = "installed"

\* predict_churn_risk in two threads of one process, statement by statement,
\* while clear_model_cache is called
NextLoadRace ==
    \/ \E w \in Workers :
          \/ ops < MaxModelOps /\ StartPredictChurnRisk(w, "s1", "t1")
          \/ LoadSteps(w)
          \/ Finish(w)
    \/ ops < MaxModelOps /\ ClearModelCache

SpecLoadRace == InitLoadRace /\ [][NextLoadRace]_vars

\* A fresh process: nothing is cached; the artifact and each JSON file may
\* be absent, readable or corrupt
InitLoad ==
    /\ clock = 100
    /\ model_file \in {"absent", "present", "corrupt"}
    /\ joblib \in {"none", "installed"}
    /\ json_files \in [{"feature_names", "metadata"} -> FileStates]
    /\ cached_model = "none"
    /\ cached_feature_names = "none"
    /\ cached_metadata = "none"
    /\ sessions = ScoredSessions /\ tutor_scores = {ScoredRow} /\ nextId = 4
    /\ match_predictions = {}
    /\ students = ("s1" :> StudentA)
    /\ tutors = ("t1" :> TutorA)
    /\ pc = [w \in Workers |-> "idle"]
    /\ frame = [w \in Workers |-> NoFrame]
    /\ ops = 0
    /\ cache = [t \in AllTutorIds |-> NoScore]
    /\ interrupted = {}
    /\ environ = [name \in EnvNames |-> Unset]
    /\ redis = "up"

\* predict_churn_risk calls of one process, one at a time; between them the
\* cache may be cleared
NextLoad ==
    \/ ops < MaxModelOps /\ StartPredictChurnRisk("w1", "s1", "t1")
    \/ /\ ops < MaxModelOps
       /\ pc["w1"] = "idle"
       /\ ClearModelCache
    \/ LoadSteps("w1")
    \/ Finish("w1")

SpecLoad == InitLoad /\ [][NextLoad]_vars

\* The record an earlier process stored for (s1, t1) with the classifier
StoredPrediction ==
    Stored(NewMatchPrediction(4, "s1", "t1",
               predict_match(StudentA, TutorA, TutorStats({ScoredRow}, "t1"),
                             "present")))

\* A process started after the pair (s1, t1) got its record, or before:
\* nothing is cached; the ML libraries may be missing and the artifact may
\* be absent, loadable or corrupt
InitRead ==
    /\ clock = 100
    /\ environ = [name \in EnvNames |-> Unset]
    /\ model_file \in {"absent", "present", "corrupt"}
    /\ joblib \in {"none", "installed"}
    /\ json_files = WrittenFiles
    /\ cached_model = "none"
    /\ cached_feature_names = "none"
    /\ cached_metadata = "none"
    /\ sessions = ScoredSessions /\ tutor_scores = {ScoredRow}
    /\ \/ match_predictions = {} /\ nextId = 4
       \/ match_predictions = {StoredPrediction} /\ nextId = 5
    /\ students = ("s1" :> StudentA)
    /\ tutors = ("t1" :> TutorA)
    /\ pc = [w \in Workers |-> "idle"]
    /\ frame = [w \in Workers |-> NoFrame]
    /\ ops = 0
    /\ cache = [t \in AllTutorIds |-> NoScore]
    /\ interrupted = {}
    /\ redis = "up"

\* Predictions of one process, one at a time, as in SpecModel
SpecRead == InitRead /\ [][NextModel]_vars

\* Tutor t1 with two sessions, with or without its TutorScore
InitTask ==
    /\ InitScoreCache
    /\ sessions # {}

\* process_session tasks of one worker, one at a time, for a session of
\* tutor t1 and for an unknown session id
NextTask ==
    \/ /\ ops < MaxOps
       /\ \E session_id \in sessions \cup {NoSession} :
             StartProcessSession("w1", session_id)
    \/ TaskOpen("w1")
    \/ TaskFetch("w1")
    \/ TaskUpdateScores("w1")
    \/ TaskQueueEmail("w1")
    \/ TaskExcept("w1")
    \/ TaskFinally("w1")
    \/ TaskRedeliver("w1")
    \/ Finish("w1")
    \/ Tick

SpecTask == InitTask /\ [][NextTask]_vars

\* Sessions as create_session stores them: completed ones, and rescheduled
\* ones with the reschedule's initiator, for tutor t1 and for another tutor
RateSessions ==
    {[id |-> 1, tutor_id |-> "t1", scheduled_time |-> 95,
      status |-> "completed", initiator |-> "none"],
     [id |-> 1, tutor_id |-> "t1", scheduled_time |-> 95,
      status |-> "rescheduled", initiator |-> "tutor"],
     [id |-> 1, tutor_id |-> "t1", scheduled_time |-> 95,
      status |-> "rescheduled", initiator |-> "student"],
     [id |-> 1, tutor_id |-> "t1", scheduled_time |-> 75,
      status |-> "rescheduled", initiator |-> "tutor"],
     [id |-> 1, tutor_id |-> "t1", scheduled_time |-> 75,
      status |-> "rescheduled", initiator |-> "student"],
     [id |-> 1, tutor_id |-> "t2", scheduled_time |-> 95,
      status |-> "rescheduled", initiator |-> "tutor"]}

\* Any table of those sessions; no TutorScore yet
InitRate ==
    /\ clock = 100
    /\ model_file = "absent"
    /\ sessions \in SUBSET RateSessions
    /\ tutor_scores = {} /\ nextId = 1
    /\ match_predictions = {}
    /\ students = ("s1" :> StudentA)
    /\ tutors = ("t1" :> TutorA) @@ ("t2" :> TutorB)
    /\ pc = [w \in Workers |-> "idle"]
    /\ frame = [w \in Workers |-> NoFrame]
    /\ ops = 0
    /\ cache = [t \in AllTutorIds |-> NoScore]
    /\ interrupted = {}
    /\ environ = [name \in EnvNames |-> Unset]
    /\ redis = "up"
    /\ json_files = WrittenFiles
    /\ ModelLoaded

\* The rates and counts of tutor t1 are computed over the table, now or
\* later
NextRate ==
    \/ ops < MaxScoreOps /\ StartUpdateScores("w1", "t1", 15000)
    \/ ScoreRates("w1")
    \/ ScoreCounts("w1")
    \/ ScoreQuery("w1")
    \/ ScoreWrite("w1")
    \/ ScoreInvalidate("w1")
    \/ Finish("w1")
    \/ Tick

SpecRate == InitRate /\ [][NextRate]_vars

\* Profiles with every optional field present or missing
StudentProfiles ==
    [age : {None, 15}, preferred_pace : {None, 1},
     preferred_teaching_style : {"", "Flexible"},
     communication_style_preference : {None, 3}]

TutorProfiles ==
    [age : {None, 20, 45}, preferred_pace : {None, 1, 5},
     teaching_style : {"", "flexible", "structured"},
     communication_style : {None, 3, 5}]

\* One student and one tutor with any of those profiles
InitPair ==
    /\ InitCommon
    /\ model_file = "absent"
    /\ tutor_scores = {}
    /\ \E p \in StudentProfiles : students = ("s1" :> p)
    /\ \E p \in TutorProfiles : tutors = ("t1" :> p)

\* The pair is scored by get_or_create_match_prediction
NextPair ==
    \/ /\ ops < MaxOps
       /\ \E force \in BOOLEAN : StartGetOrCreate("w1", "s1", "t1", force)
    \/ GocRead("w1")
    \/ GocExisting("w1")
    \/ GocInsert("w1")
    \/ Finish("w1")

SpecPair == InitPair /\ [][NextPair]_vars

\* Probabilities at, just below and away from every threshold in use
Probabilities ==
    {0, 14999, 15000, 19999, 20000, 29999, 30000, 34999, 35000,
     49999, 50000, 69999, 70000, 100000}

\* Each threshold variable is unset or set to "0.2" or "0.5"
InitRisk ==
    /\ clock = 100
    /\ model_file = "absent"
    /\ sessions = {} /\ tutor_scores = {} /\ nextId = 1
    /\ match_predictions = {}
    /\ students = ("s1" :> StudentA)
    /\ tutors = ("t1" :> TutorA)
    /\ pc = [w \in Workers |-> "idle"]
    /\ frame = [w \in Workers |-> NoFrame]
    /\ ops = 0
    /\ cache = [t \in AllTutorIds |-> NoScore]
    /\ interrupted = {}
    /\ ModelLoaded
    /\ environ \in [EnvNames -> {Unset, "0.2", "0.5"}]
    /\ redis = "up"
    /\ json_files = WrittenFiles

\* Risk levels are determined for either service
NextRisk ==
    \/ /\ ops < MaxOps
       /\ \E service \in {"match", "reschedule"}, p \in Probabilities :
             DetermineRiskLevel("w1", service, p)
    \/ Finish("w1")

SpecRisk == InitRisk /\ [][NextRisk]_vars

----------------------------------------------------------------------------
(* Properties *)

PairRows(s, t) ==
    {r \in match_predictions : r.student_id = s /\ r.tutor_id = t}

\* The stored columns of the prediction computed now for the pair
CurrentColumns(s, t) ==
    PredictionColumns(
        predict_match(students[s], tutors[t], TutorStats(tutor_scores, t),
                      model_file))

Columns(row) == [c \in DOMAIN PredictionColumns(NoData) |-> row[c]]

Distinct(seq) == \A a, b \in 1..Len(seq) : seq[a] = seq[b] => a = b

\* C1: in every state reached by interleaved get_or_create, bulk refresh and
\* cost-matrix steps, no two rows of match_predictions have the same
\* (student_id, tutor_id).
C1_AtMostOnePerPair ==
    \A r1, r2 \in match_predictions :
        (r1.student_id = r2.student_id /\ r1.tutor_id = r2.tutor_id) => r1 = r2

\* Two handlers raced on the insert of a pair: one row is stored and the
\* other handler's insert was rejected.
C1_Witness ==
    \E w \in Workers :
        /\ pc[w] = "error"
        /\ frame[w].error = "IntegrityError"
        /\ Cardinality(PairRows(frame[w].student, frame[w].tutor)) = 1

\* C2: a get_or_create_match_prediction call that finds no record and loses
\* the insert race returns the winner's row and surfaces no error: every
\* handler that stops after reading "no record" has stopped without an error
\* and holds the stored row of its pair.
C2_LoserReturnsWinnersRow ==
    \A w \in Workers :
        (pc[w] \in {"done", "error"}
         /\ frame[w].op = "get_or_create"
         /\ frame[w].existing = NoRow)
        => /\ pc[w] = "done"
           /\ frame[w].error = ""
           /\ \E r \in PairRows(frame[w].student, frame[w].tutor) :
                 r.id = frame[w].ret.id

\* C3: when run_optimal_matching returns for n >= 2 distinct existing
\* students and n distinct existing tutors, it returns n matches, every given
\* student and every given tutor is in exactly one of them, and the sum of
\* the stored churn probabilities of the matched pairs is at most the sum
\* for every bijection between the two lists.
C3_OptimalBijection ==
    LET f == frame["w1"]
        n == Len(f.sids)
        cost(s, t) == QueryPrediction(match_predictions, s, t).churn_probability
        matched == SumTo([k \in 1..n |-> cost(f.matches[k].student_id,
                                               f.matches[k].tutor_id)], n)
    IN (pc["w1"] = "done" /\ f.op = "run_matching"
        /\ Distinct(f.sids) /\ Distinct(f.tids))
       => /\ n >= 2
          /\ Len(f.matches) = n
          /\ \A s \in Range(f.sids) :
                Cardinality({k \in 1..n : f.matches[k].student_id = s}) = 1
          /\ \A t \in Range(f.tids) :
                Cardinality({k \in 1..n : f.matches[k].tutor_id = t}) = 1
          /\ \A k \in 1..n :
                f.matches[k].churn_probability
                    = cost(f.matches[k].student_id, f.matches[k].tutor_id)
          /\ \A q \in Perms(n) :
                matched <= SumTo([k \in 1..n |-> cost(f.sids[k], f.tids[q[k]])], n)

\* A matching of three students that does not pair the lists in order.
C3_Witness ==
    LET f == frame["w1"]
    IN /\ pc["w1"] = "done"
       /\ f.op = "run_matching"
       /\ Len(f.sids) = 3
       /\ Distinct(f.sids) /\ Distinct(f.tids)
       /\ \A k \in 1..3 : f.matches[k].tutor_id # f.tids[k]

\* C4: every stored TutorScore has is_high_risk exactly when one of its
\* stored 7d, 30d, 90d rates (a missing rate counting as 0) is strictly
\* greater than its stored risk_threshold, in every state of a sequence of
\* update_scores_for_tutor calls.
C4_FlagMatchesStoredRates ==
    \A r \in tutor_scores :
        r.is_high_risk <=>
            \E rate \in {r.reschedule_rate_7d, r.reschedule_rate_30d,
                         r.reschedule_rate_90d} :
                (IF rate = None THEN 0 ELSE rate) > r.risk_threshold

\* update_scores_for_tutor stored a row flagged high risk whose 7-day rate
\* does not exceed the threshold.
C4_Witness ==
    /\ pc["w1"] = "done"
    /\ frame["w1"].op = "update_scores"
    /\ frame["w1"].ret \in tutor_scores
    /\ frame["w1"].ret.is_high_risk
    /\ frame["w1"].ret.reschedule_rate_7d <= frame["w1"].ret.risk_threshold

\* C5: the write step of a get_or_create_match_prediction call without
\* force_refresh that found a record leaves match_predictions unchanged and
\* returns the record that is stored, with every field as it was.
C5_ReadLeavesStoreUnchanged ==
    [][\A w \in Workers :
          (pc[w] = "goc_write" /\ frame[w].op = "get_or_create"
           /\ ~frame[w].force /\ frame[w].existing # NoRow
           /\ pc'[w] # pc[w])
          => /\ match_predictions' = match_predictions
             /\ pc'[w] = "done"
             /\ frame'[w].ret = frame[w].existing
             /\ frame'[w].ret \in match_predictions']_vars

\* A read without force_refresh returned a record that has a cached
\* explanation.
C5_Witness ==
    \E w \in Workers :
        /\ pc[w] = "done"
        /\ frame[w].op = "get_or_create"
        /\ ~frame[w].force
        /\ frame[w].existing # NoRow
        /\ frame[w].ret.ai_explanation # ""
        /\ frame[w].ret \in match_predictions

\* The state in which a get_or_create_match_prediction(force_refresh=true)
\* call on an existing record has returned
C6_Refreshed(w) ==
    /\ pc[w] = "done"
    /\ frame[w].op = "get_or_create"
    /\ frame[w].force
    /\ frame[w].existing # NoRow

\* C6 (amended): with handlers running one at a time, a force refresh of an
\* existing record returns the same record (same id, the only row of the
\* pair); its columns are the values computed from the current profiles and
\* tutor stats as the columns store them (churn probability and
\* compatibility rounded to 4 decimal places) and its explanation is null.
C6_RefreshInPlaceRounded ==
    \A w \in Workers :
        C6_Refreshed(w) =>
            LET f == frame[w]
            IN /\ f.ret.id = f.existing.id
               /\ PairRows(f.student, f.tutor) = {f.ret}
               /\ Columns(f.ret) = Stored(CurrentColumns(f.student, f.tutor))
               /\ f.ret.ai_explanation = ""

\* A force refresh replaced a record that had an explanation, and the
\* churn probability it stored is not the computed value itself.
C6_Witness ==
    \E w \in Workers :
        /\ C6_Refreshed(w)
        /\ frame[w].existing.ai_explanation # ""
        /\ frame[w].ret \in match_predictions
        /\ frame[w].ret.churn_probability
               # CurrentColumns(frame[w].student, frame[w].tutor).churn_probability

\* C6 as stated: the refreshed record's columns are exactly the computed
\* values.
C6_RefreshInPlaceExact ==
    \A w \in Workers :
        C6_Refreshed(w) =>
            LET f == frame[w]
            IN /\ f.ret.id = f.existing.id
               /\ PairRows(f.student, f.tutor) = {f.ret}
               /\ Columns(f.ret) = CurrentColumns(f.student, f.tutor)
               /\ f.ret.ai_explanation = ""

\* The pairs a completed refresh covers
RefreshScope(f) ==
    CASE f.op = "refresh_tutor" ->
             IF f.tutor \in DOMAIN tutors
             THEN (DOMAIN students) \X {f.tutor} ELSE {}
      [] f.op = "refresh_student" ->
             IF f.student \in DOMAIN students
             THEN {f.student} \X (DOMAIN tutors) ELSE {}
      [] f.op = "refresh_all" -> (DOMAIN students) \X (DOMAIN tutors)
      [] f.op = "get_or_create" /\ f.force -> {<<f.student, f.tutor>>}
      [] OTHER -> {}

\* C7: with handlers running one at a time, whenever a force refresh or a
\* bulk refresh returns (a first run, a repeated run, or a run after one
\* that stopped partway), every pair in its scope has exactly one row, that
\* row holds the stored values of the prediction computed from the current
\* inputs, and its explanation is null.
C7_RefreshIsRepeatable ==
    \A w \in Workers :
        pc[w] = "done" =>
            \A pair \in RefreshScope(frame[w]) :
                \E r \in match_predictions :
                    /\ PairRows(pair[1], pair[2]) = {r}
                    /\ Columns(r) = Stored(CurrentColumns(pair[1], pair[2]))
                    /\ r.ai_explanation = ""

\* A bulk refresh over several pairs returned after an earlier run of the
\* same refresh stopped partway.
C7_Witness ==
    \E w \in Workers :
        /\ pc[w] = "done"
        /\ frame[w].op \in BulkOps
        /\ frame[w].op \in interrupted
        /\ frame[w].count >= 2
        /\ Cardinality(match_predictions) >= frame[w].count

\* C8: a run_optimal_matching call whose lists differ in length or have
\* fewer than 2 entries has raised ValueError without looking any profile up
\* and without reading or creating a MatchPrediction.
C8_SizesRejectedFirst ==
    \A w \in Workers :
        (frame[w].op = "run_matching"
         /\ (Len(frame[w].sids) # Len(frame[w].tids) \/ Len(frame[w].sids) < 2))
        => /\ pc[w] = "error"
           /\ frame[w].error = "ValueError"
           /\ frame[w].touched = {}
           /\ frame[w].wrote = {}

\* Three students and two tutors were rejected.
C8_Witness ==
    /\ pc["w1"] = "error"
    /\ frame["w1"].op = "run_matching"
    /\ Len(frame["w1"].sids) = 3
    /\ Len(frame["w1"].tids) = 2
    /\ frame["w1"].error = "ValueError"

\* C9: a run_optimal_matching call whose student list or tutor list holds an
\* id twice has raised a validation error before any cost-matrix work (no
\* profile lookup, no prediction read or created), and so returns no
\* assignment.
C9_DuplicatesRejected ==
    \A w \in Workers :
        (frame[w].op = "run_matching"
         /\ (~Distinct(frame[w].sids) \/ ~Distinct(frame[w].tids)))
        => /\ pc[w] = "error"
           /\ frame[w].error = "ValueError"
           /\ frame[w].touched = {}

\* The ids of a matching call that resolve to no profile
MissingIds(f) ==
    (Range(f.sids) \ DOMAIN students) \cup (Range(f.tids) \ DOMAIN tutors)

\* C10: once build_cost_matrix has looked the profiles up with an id that
\* resolves to no profile, it has raised an error that names every missing
\* id, and no MatchPrediction was read or created.
C10_EveryMissingIdNamed ==
    \A w \in Workers :
        (frame[w].op = "run_matching"
         /\ "profile_lookup" \in frame[w].touched
         /\ MissingIds(frame[w]) # {})
        => /\ pc[w] = "error"
           /\ frame[w].error = "ValueError"
           /\ frame[w].named = MissingIds(frame[w])
           /\ frame[w].touched = {"profile_lookup"}

\* C11: when two update_scores_for_tutor calls for a tutor without a
\* TutorScore run at the same time, neither call ends in an error and a
\* call that has returned leaves exactly one TutorScore for the tutor.
C11_ConcurrentFirstUpdatesComplete ==
    \A w \in Workers :
        frame[w].op = "update_scores" =>
            /\ pc[w] # "error"
            /\ pc[w] = "done" =>
                  Cardinality(TutorScoreOf(tutor_scores, frame[w].tutor)) = 1

\* C12: when a sequential update_scores_for_tutor call for an existing tutor
\* has ended, exactly one TutorScore exists for the tutor; if one existed
\* before the call it is the same record (same id) and its
\* last_calculated_at is not earlier than before.
C12_OneRecordSameId ==
    LET f == frame["w1"]
    IN (f.op = "update_scores" /\ f.tutor \in DOMAIN tutors
            /\ pc["w1"] \in {"done", "error"}) =>
        \E r \in tutor_scores :
            /\ TutorScoreOf(tutor_scores, f.tutor) = {r}
            /\ f.existing # NoScore =>
                  /\ r.id = f.existing.id
                  /\ r.last_calculated_at >= f.existing.last_calculated_at

\* C13: when update_scores_for_tutor(tutor, risk_threshold = T) has
\* returned, the record is flagged high risk exactly when one of its window
\* rates is strictly greater than T, and its risk_threshold column holds T
\* (at the column's precision), whether or not a record existed before.
C13_FlagUsesPassedThreshold ==
    LET f == frame["w1"]
    IN (f.op = "update_scores" /\ pc["w1"] = "done") =>
        /\ f.ret.is_high_risk <=>
              \E rate \in {f.ret.reschedule_rate_7d, f.ret.reschedule_rate_30d,
                           f.ret.reschedule_rate_90d} :
                  (IF rate = None THEN 0 ELSE rate) * 10 > f.threshold
        /\ f.ret.risk_threshold = StoreThreshold(f.threshold)

\* C14: an update_scores_for_tutor call with a tutor id that matches no
\* tutor ends at once in a ValueError for that id; neither that step nor
\* the end of the handler creates or changes a TutorScore or removes a
\* cache entry.
C14_UnknownTutorNotFound ==
    [][\A w \in Workers :
          /\ (pc[w] = "idle" /\ frame'[w].op = "update_scores"
                  /\ frame'[w].tutor \notin DOMAIN tutors) =>
                /\ pc'[w] = "error"
                /\ frame'[w].error = "ValueError"
                /\ tutor_scores' = tutor_scores
                /\ cache' = cache
          /\ (pc[w] = "error" /\ frame[w].error = "ValueError"
                  /\ pc'[w] # "error") =>
                /\ pc'[w] = "idle"
                /\ tutor_scores' = tutor_scores
                /\ cache' = cache]_vars

\* update_scores_for_tutor("t9") has raised while the table holds the
\* TutorScore of t1 and the cache holds its entry.
C14_Witness ==
    /\ pc["w1"] = "error"
    /\ frame["w1"].op = "update_scores"
    /\ frame["w1"].tutor = "t9"
    /\ frame["w1"].error = "ValueError"
    /\ tutor_scores # {}
    /\ cache["t1"] # NoScore

\* C15: when load_model has nothing cached and the ML libraries are absent,
\* the model file is absent or the artifact fails to load, the prediction
\* step of get_or_create_match_prediction does not raise and its churn
\* probability is exactly 1 - compatibility_score of the pair.
C15_FallbackWhenUnavailable ==
    [][\A w \in Workers :
          (pc[w] = "goc_read" /\ pc'[w] # "goc_read"
              /\ cached_model = "none"
              /\ (joblib = "none" \/ model_file \in {"absent", "corrupt"})) =>
            /\ pc'[w] = "goc_write"
            /\ frame'[w].data.churn_probability =
                   100000 - frame'[w].data.compatibility_score]_vars

\* C16: a prediction made while a classifier is cached uses the cached
\* classifier whatever the artifact on disk is by then, and leaves the
\* cached classifier, feature order and metadata as they are; a prediction
\* made with nothing cached (at start or after clear_model_cache) and a
\* loadable artifact uses and caches all three from the artifact on disk.
C16_CacheReusedUntilCleared ==
    [][\A w \in Workers :
          (pc[w] = "goc_read" /\ pc'[w] # "goc_read") =>
            LET f == frame[w]
                with(model) == predict_match(students[f.student],
                                             tutors[f.tutor], f.stats, model)
            IN /\ cached_model # "none" =>
                     /\ pc'[w] = "goc_write"
                     /\ frame'[w].data = with(cached_model)
                     /\ cached_model' = cached_model
                     /\ cached_feature_names' = cached_feature_names
                     /\ cached_metadata' = cached_metadata
               /\ (cached_model = "none" /\ joblib = "installed"
                      /\ model_file \in {"present", "retrained"}) =>
                     /\ pc'[w] = "goc_write"
                     /\ frame'[w].data = with(model_file)
                     /\ cached_model' = model_file
                     /\ cached_feature_names' = model_file
                     /\ cached_metadata' = model_file]_vars

\* A prediction was made with the cached classifier after the artifact on
\* disk had been replaced, and the two classifiers disagree on the pair.
C16_Witness ==
    LET f == frame["w1"]
    IN /\ pc["w1"] = "goc_write"
       /\ cached_model = "present"
       /\ model_file = "retrained"
       /\ ops >= 2
       /\ f.data = predict_match(students[f.student], tutors[f.tutor],
                                 f.stats, "present")
       /\ f.data # predict_match(students[f.student], tutors[f.tutor],
                                 f.stats, "retrained")

\* The window of C17: the tutor's sessions scheduled at or after now - days
C17_Total(tutor_id, days) ==
    {x \in sessions : x.tutor_id = tutor_id /\ x.scheduled_time >= clock - days}

\* those of them that are rescheduled, the reschedule initiated by the tutor
C17_TutorRescheduled(tutor_id, days) ==
    {x \in C17_Total(tutor_id, days) :
        x.status = "rescheduled" /\ x.initiator = "tutor"}

C17_Days == <<7, 30, 90>>

\* C17: for each window, calculate_reschedule_rate returns
\* round(100 * R / T, 2), or 0.0 when T = 0, and get_session_counts returns
\* (T, R), where T counts the tutor's sessions of the window and R those of
\* them with status rescheduled and a tutor-initiated reschedule.
C17_RateFormula ==
    [][\A w \in Workers : \A i \in 1..3 :
          LET T == Cardinality(C17_Total(frame[w].tutor, C17_Days[i]))
              R == Cardinality(C17_TutorRescheduled(frame[w].tutor, C17_Days[i]))
          IN /\ (pc[w] = "score_rates" /\ pc'[w] = "score_counts") =>
                   frame'[w].rates[i] = IF T = 0 THEN 0 ELSE Round2(R, T)
             /\ (pc[w] = "score_counts" /\ pc'[w] = "score_query") =>
                   frame'[w].counts[i] = <<T, R>>]_vars

\* The rates of a tutor were computed whose 30-day window holds a
\* student-initiated reschedule and gives a rate that needed rounding,
\* and whose 7-day window is empty.
C17_Witness ==
    LET f == frame["w1"]
    IN /\ pc["w1"] = "score_counts"
       /\ f.rates[1] = 0
       /\ f.rates[2] = 3333
       /\ C17_Total("t1", 7) = {}
       /\ \E x \in C17_Total("t1", 30) : x.initiator = "student"
       /\ \E x \in sessions : x.tutor_id = "t2"

\* The terms of C18, in units of 0.00001: min(pace/4, 1), style,
\* min(comm/4, 1) and min(age/20, 1) of a student and a tutor profile
C18_Scale(a, b, default, cap) ==
    LET d == IF a = None \/ b = None THEN default
             ELSE 100 * (IF a < b THEN b - a ELSE a - b)
    IN IF d >= cap THEN 100000 ELSE (d * 100000) \div cap

C18_Style(a, b) ==
    IF a = "" \/ b = "" THEN 50000
    ELSE IF lower(a) = lower(b) THEN 0 ELSE 100000

C18_Formula(s, t) ==
    LET mismatch ==
            (30 * C18_Scale(s.preferred_pace, t.preferred_pace, 250, 400)
             + 30 * C18_Style(s.preferred_teaching_style, t.teaching_style)
             + 20 * C18_Scale(s.communication_style_preference,
                              t.communication_style, 250, 400)
             + 20 * C18_Scale(s.age, t.age, 1000, 2000)) \div 100
        value == 100000 - mismatch
    IN IF value < 0 THEN 0 ELSE IF value > 100000 THEN 100000 ELSE value

\* C18: for every student and tutor profile, with optional fields present
\* or missing, the prediction step does not raise and its compatibility
\* score is 1 - (0.30 min(pace/4, 1) + 0.30 style + 0.20 min(comm/4, 1)
\* + 0.20 min(age/20, 1)) clamped to [0, 1], with the defaults 2.5, 0.5,
\* 2.5 and 10 for a term with a missing side; it lies in [0, 1].
C18_CompatibilityFormula ==
    \A w \in Workers :
        frame[w].op = "get_or_create" =>
            /\ pc[w] # "error"
            /\ pc[w] \in {"goc_write", "done"} =>
                  LET score == frame[w].data.compatibility_score
                  IN /\ score = C18_Formula(students[frame[w].student],
                                            tutors[frame[w].tutor])
                     /\ score >= 0 /\ score <= 100000

\* A pair was scored whose styles differ only in case, whose ages differ
\* by more than the cap, whose pace is missing on one side and whose
\* communication styles agree: 1 - (0.30 * 0.625 + 0.20 * 1) = 0.6125.
C18_Witness ==
    /\ pc["w1"] = "done"
    /\ frame["w1"].op = "get_or_create"
    /\ students["s1"].preferred_teaching_style = "Flexible"
    /\ tutors["t1"].teaching_style = "flexible"
    /\ students["s1"].age = 15 /\ tutors["t1"].age = 45
    /\ students["s1"].preferred_pace = None /\ tutors["t1"].preferred_pace = 5
    /\ students["s1"].communication_style_preference = 3
    /\ tutors["t1"].communication_style = 3
    /\ frame["w1"].data.compatibility_score = 61250

\* The thresholds C19 names for a service: the configured ones where they
\* are set, else (0.30, 0.70) for match risk and (0.15, 0.35) for
\* per-session reschedule risk
C19_Low(service) ==
    LET name == IF service = "match" THEN "MATCH_RISK_THRESHOLD_LOW"
                ELSE "RESCHEDULE_RISK_THRESHOLD_LOW"
    IN IF environ[name] = "0.2" THEN 20000
       ELSE IF environ[name] = "0.5" THEN 50000
       ELSE IF service = "match" THEN 30000 ELSE 15000

C19_High(service) ==
    LET name == IF service = "match" THEN "MATCH_RISK_THRESHOLD_HIGH"
                ELSE "RESCHEDULE_RISK_THRESHOLD_HIGH"
    IN IF environ[name] = "0.2" THEN 20000
       ELSE IF environ[name] = "0.5" THEN 50000
       ELSE IF service = "match" THEN 70000 ELSE 35000

C20_RefreshCounts ==
    \A w \in Workers :
        LET f == frame[w]
        IN (pc[w] = "done" /\ f.op \in BulkOps) =>
            /\ (f.op = "refresh_tutor" /\ f.tutor \in DOMAIN tutors) =>
                  f.count = Cardinality(DOMAIN students)
            /\ (f.op = "refresh_student" /\ f.student \in DOMAIN students) =>
                  f.count = Cardinality(DOMAIN tutors)
            /\ f.op = "refresh_all" =>
                  f.count = Cardinality(DOMAIN students)
                            * Cardinality(DOMAIN tutors)
            /\ \A pair \in RefreshScope(f) :
                  /\ Cardinality(PairRows(pair[1], pair[2])) = 1
                  /\ pair \in f.wrote

\* refresh_all_predictions returned 4 over two students and two tutors,
\* having rewritten four records that existed before the call and
\* inserted none.
C20_Witness ==
    LET f == frame["w1"]
    IN /\ pc["w1"] = "done"
       /\ f.op = "refresh_all"
       /\ f.count = 4
       /\ Cardinality(f.wrote) = 4
       /\ "prediction_write" \notin f.touched

\* C21: a refresh_tutor_predictions call whose tutor id, or a
\* refresh_student_predictions call whose student id, resolves to no
\* profile ends in a not-found error that names the id, and changes no
\* MatchPrediction.
C21_UnknownIdSurfaced ==
    [][\A w \in Workers :
          LET f == frame'[w]
              unknown ==
                  \/ f.op = "refresh_tutor" /\ f.tutor \notin DOMAIN tutors
                  \/ f.op = "refresh_student" /\ f.student \notin DOMAIN students
          IN (pc[w] = "idle" /\ pc'[w] # "idle" /\ unknown) =>
                /\ pc'[w] = "error"
                /\ f.error # ""
                /\ f.named = {IF f.op = "refresh_tutor" THEN f.tutor
                               ELSE f.student}
                /\ match_predictions' = match_predictions]_vars

\* The TutorScore the store holds for a tutor, or NoScore
C22_Stored(tutor_id) ==
    IF tutor_id \notin DOMAIN tutors \/ TutorScoreOf(tutor_scores, tutor_id) = {}
    THEN NoScore
    ELSE CHOOSE r \in TutorScoreOf(tutor_scores, tutor_id) : TRUE

\* C22: whether the cache is reachable or not and whatever it holds, no
\* handler ends in an error, the summary get_tutor_by_id reads is the one
\* the store holds, and the write step of update_scores_for_tutor commits
\* the summary and the handler goes on to return it.
C22_CacheNeverChangesResult ==
    [][\A w \in Workers :
          /\ pc'[w] # "error"
          /\ (pc[w] = "tutor_query" /\ pc'[w] # "tutor_query") =>
                /\ pc'[w] = "tutor_cache"
                /\ frame'[w].existing = C22_Stored(frame[w].tutor)
          /\ (pc[w] = "tutor_cache" /\ pc'[w] # "tutor_cache") =>
                /\ pc'[w] = "done"
                /\ frame'[w] = frame[w]
          /\ (pc[w] = "score_write" /\ pc'[w] # "score_write") =>
                /\ pc'[w] = "score_invalidate"
                /\ frame'[w].ret \in tutor_scores'
          /\ (pc[w] = "score_invalidate" /\ pc'[w] # "score_invalidate") =>
                /\ pc'[w] = "done"
                /\ frame'[w] = frame[w]
                /\ tutor_scores' = tutor_scores]_vars

\* get_tutor_by_id returned the stored summary while the cache, reachable
\* again, held an older one that an update could not invalidate.
C22_Witness ==
    LET f == frame["w1"]
    IN /\ pc["w1"] = "done"
       /\ f.op = "get_tutor"
       /\ redis = "up"
    /\ json_files = WrittenFiles
       /\ f.cached # NoScore
       /\ f.cached # f.existing
       /\ f.existing \in tutor_scores

\* The only row match_predictions' holds for a pair, or NoRow
C23_Record(pair) == QueryPrediction(match_predictions', pair[1], pair[2])

\* C23: with handlers running one at a time, every step of build_cost_matrix
\* keeps each stored MatchPrediction as it is and adds a record only for a
\* pair that had none; when build_cost_matrix returns, every pair
\* (student_ids[i], tutor_ids[j]) has a record, cost[i][j] is that record's
\* churn probability and predictions_map holds that record for the pair.
C23_CostMatrixFromStoredRecords ==
    [][\A w \in Workers :
          (frame[w].op = "run_matching"
              /\ pc[w] \in {"match_cell", "goc_read", "goc_write"}
              /\ pc'[w] # pc[w]) =>
             /\ match_predictions \subseteq match_predictions'
             /\ \A r \in match_predictions' \ match_predictions :
                   QueryPrediction(match_predictions, r.student_id, r.tutor_id) = NoRow
             /\ pc'[w] = "match_solve" =>
                   LET f == frame'[w]
                   IN \A i \in 1..Len(f.sids), j \in 1..Len(f.tids) :
                         LET pair == <<f.sids[i], f.tids[j]>>
                         IN /\ C23_Record(pair) # NoRow
                            /\ f.cost[cost_cell(i, j)] = C23_Record(pair).churn_probability
                            /\ pair \in DOMAIN f.pmap
                            /\ PredictionObject(f, pair, match_predictions')
                                  = C23_Record(pair)]_vars

\* A matching run completed over four pairs of which (s1, t1) had a record
\* computed before tutor t1's profile changed; its stored churn probability,
\* no longer the one a prediction would give now, is the cost of its cell.
C23_Witness ==
    LET f == frame["w1"]
    IN /\ pc["w1"] = "done"
       /\ f.op = "run_matching"
       /\ f.wrote # {}
       /\ <<"s1", "t1">> \notin f.wrote
       /\ PairRows("s1", "t1") # {}
       /\ \A r \in PairRows("s1", "t1") :
             /\ Columns(r) # CurrentColumns("s1", "t1")
             /\ f.cost[<<1, 1>>] = r.churn_probability

\* C24: in every interleaving of update_scores_for_tutor with get_tutor_by_id
\* calls for the same tutor, once update_scores_for_tutor has committed a
\* changed summary and returned, the cache does not hold the summary the
\* tutor had before that recompute.
C24_NoStaleEntryAfterRecompute ==
    \A w \in Workers :
        LET f == frame[w]
        IN (pc[w] = "done" /\ f.op = "update_scores"
                /\ f.existing # NoScore /\ f.ret # f.existing
                /\ f.ret \in tutor_scores) =>
              cache[f.tutor] # f.existing

\* C25: in every interleaving of predict_churn_risk calls with
\* clear_model_cache, no call ends in an error, and load_model never returns
\* a null model: a call that load_model has returned to without raising
\* holds a model.
C25_InFlightPredictionCompletes ==
    \A w \in Workers :
        LET f == frame[w]
        IN f.op = "predict_churn_risk" =>
              /\ pc[w] # "error"
              /\ (pc[w] \in {"predict", "done"} /\ f.raises = "") =>
                    f.model # "none"

\* The rate the counts of one window give: round(100 * r / t, 2), in 0.01 %
C26_RateOf(counts) ==
    IF counts[1] = 0 THEN 0 ELSE Round2(counts[2], counts[1])

\* C26: in every stored TutorScore, also when sessions and reschedules are
\* inserted between the rate queries and the count queries of
\* update_scores_for_tutor, each window's stored rate is
\* round(100 * tutor_reschedules / total_sessions, 2), or 0 without
\* sessions, and tutor_reschedules <= total_sessions.
C26_StoredRateMatchesCounts ==
    \A r \in tutor_scores :
        /\ r.tutor_reschedules_7d <= r.total_sessions_7d
        /\ r.tutor_reschedules_30d <= r.total_sessions_30d
        /\ r.tutor_reschedules_90d <= r.total_sessions_90d
        /\ r.reschedule_rate_7d
              = C26_RateOf(<<r.total_sessions_7d, r.tutor_reschedules_7d>>)
        /\ r.reschedule_rate_30d
              = C26_RateOf(<<r.total_sessions_30d, r.tutor_reschedules_30d>>)
        /\ r.reschedule_rate_90d
              = C26_RateOf(<<r.total_sessions_90d, r.tutor_reschedules_90d>>)

\* C27: whenever no load_model call is in progress, a cached model comes
\* with the feature order and the metadata of the call that loaded it; in
\* particular a call that raised partway has left the cache empty.
C27_CacheAllOrNothing ==
    (\A w \in Workers : pc[w] \in {"idle", "done", "error"}) =>
        (cached_model # "none" =>
            /\ cached_feature_names # "none"
            /\ cached_metadata # "none")

\* C28: a get_or_create_match_prediction call without force_refresh for a
\* pair that has a record does not end in an error, whatever the state of
\* the classifier.
C28_ReadWithoutScoring ==
    \A w \in Workers :
        LET f == frame[w]
        IN (f.op = "get_or_create" /\ ~f.force
                /\ PairRows(f.student, f.tutor) # {}) =>
              pc[w] # "error"

\* C29: when a force refresh of an existing record has returned and a
\* classifier computed its values, the record's model_version is the version
\* of that classifier, also after the classifier was swapped.
C29_VersionIdentifiesClassifier ==
    \A w \in Workers :
        LET f == frame[w]
        IN (pc[w] = "done" /\ f.op = "get_or_create" /\ f.force
                /\ f.existing # NoRow /\ cached_model # "none") =>
              /\ f.ret \in match_predictions
              /\ f.ret.model_version = metadata_model_version(cached_metadata)

\* C30: a process_session task is retried at most max_retries = 3 times and
\* its k-th retry is scheduled with a countdown of 60 * k seconds; a run
\* that fails after the third retry raises the exception it caught and the
\* task stops; when a run has returned, asked for a retry or failed, the
\* database session it opened is closed; a run whose email report could not
\* be queued still returns successfully with the committed TutorScore stored.
C30_BoundedRetriesSessionClosed ==
    \A w \in Workers :
        LET f == frame[w]
        IN f.op = "process_session" =>
              /\ f.retries <= max_retries
              /\ f.countdowns = [k \in 1..Len(f.countdowns) |-> 60 * k]
              /\ Len(f.countdowns) =
                    (IF f.outcome = "retry" THEN f.retries + 1 ELSE f.retries)
              /\ pc[w] = "retry" =>
                    /\ f.outcome = "retry"
                    /\ f.retries < max_retries
              /\ pc[w] = "error" =>
                    /\ f.retries = max_retries
                    /\ f.exc # ""
                    /\ f.error = f.exc
              /\ pc[w] \in {"done", "retry", "error"} => f.db # "open"
              /\ pc[w] = "done" =>
                    /\ f.exc = ""
                    /\ f.db = "closed"
                    /\ f.ret \in tutor_scores
              /\ f.email = "failed" =>
                    /\ pc[w] \in {"task_finally", "done"}
                    /\ f.outcome = "success"
                    /\ f.ret \in tutor_scores

\* The run after the third retry failed: the retries had countdowns 60, 120
\* and 180, the caught exception was raised and the session is closed.
C30_Witness ==
    LET f == frame["w1"]
    IN /\ pc["w1"] = "error"
       /\ f.op = "process_session"
       /\ f.retries = 3
       /\ f.countdowns = <<60, 120, 180>>
       /\ f.error = "OperationalError"
       /\ f.db = "closed"

====
